---- MODULE Spec2Model ----
(***************************************************************************)
(* Verification model of upbit-auto (package ua).                          *)
(*                                                                         *)
(*   SpecSim    ua/engine/common.py     simulate_long_only                 *)
(*   SpecAgg    ua/data/aggregator.py   CandleAggregator                   *)
(*   SpecQuant  ua/broker/upbit.py      UpbitBroker.quantize_price         *)
(*   SpecLive   ua/live/portfolio_ws.py run_portfolio_ws                   *)
(*              ua/live/ws_loop.py      run_live_ws                        *)
(*                                                                         *)
(* Each specification runs one component; the variables of the others      *)
(* keep their idle values.                                                 *)
(*                                                                         *)
(* Arithmetic.  The program computes in binary floating point; the model   *)
(* computes in fixed point: money in whole units, quantities in 1/1000 of  *)
(* a coin, rates (fee, slippage, fractions, stops) in whole percent.  A    *)
(* float division or product is the integer operation at that resolution,  *)
(* rounded down.                                                           *)
(***************************************************************************)
EXTENDS Integers, Sequences, FiniteSets, TLC

(* Python's None, for string-valued names *)
None == "None"
(* An Optional[float]: <<>> is None, <<x>> is the number x *)
Absent == <<>>
Some(x) == <<x>>
IsSet(o) == o # <<>>
Val(o) == o[1]

(***************************************************************************)
(* Bounds of the model                                                     *)
(***************************************************************************)
MaxBars == 7
(* ticks fed to one CandleAggregator bucket *)
MaxBucketTicks == 3
(* largest amount given to quantize_price, in tenths *)
MaxPrice == 40
(* minutes of trade ticks a live session on one market receives *)
MaxMinute == 3
(* the same for a session on two markets or with connection failures *)
MaxMinuteShort == 1

(* close prices and signals of the series given to simulate_long_only *)
Prices == {50, 100}
Signals == {-1, 0, 1}

VARIABLES
    (* ---- simulate_long_only: arguments ---- *)
    close,            \* df["Close"]: the bars read so far; the whole series once done
    cash,             \* starting cash
    fee,              \* fee rate, percent
    slippage,         \* slippage rate, percent
    max_fraction,     \* fraction of cash per trade, percent
    cooldown_bars,    \* minimum bars between trades
    stop_drawdown,    \* drawdown stop, percent, or None
    (* ---- simulate_long_only: locals ---- *)
    pc,               \* "loop" | "halted" (after break) | "done"
    i,                \* index of the bar the loop is at (0-based)
    sig,              \* signals.iat[i] of the bar last read
    price,            \* local `price`
    equity_curve,
    position,
    entry_price,
    trades,
    wins,
    cash_bal,
    last_trade_bar,
    stopped_reason,
    metrics,
    entries,          \* history: the positions opened so far
    (* ---- CandleAggregator ---- *)
    bucket,           \* self.bucket: Absent or Some(CandleBucket)
    row,              \* what the last update()/finalize() returned: Absent or Some(bar)
    tick,             \* arguments (ts, price, volume) of the last update(): Absent or Some
    ticks,            \* history: the ticks given to update() since the open bucket was seeded
    ordered,          \* history: every update() so far had ts >= the ts of the one before
    (* ---- quantize_price ---- *)
    q_price,          \* argument price, in tenths
    q_unit,           \* argument price_unit, in tenths: Absent or Some
    q_result,         \* Absent before the call, Some(returned value) after
    (* ---- run_portfolio_ws / run_live_ws ---- *)
    loop,             \* which function runs: "portfolio" | "live_ws" ("idle": none)
    params,           \* its keyword arguments
    states,           \* market -> MarketState (run_live_ws: its locals, one market)
    krw_bal,
    start_equity,
    equity,           \* local `equity` of the last tick
    stopped,          \* Absent while the loop runs, Some(the dict returned) after
    now,              \* minute of the latest trade tick received
    horizon,          \* the last minute of the session the model follows
    exch,             \* the exchange: balances and orders not yet filled
    placed,           \* history: the place_order calls of the last tick, in order
    refreshed,        \* history: the get_accounts calls of the last tick, in order
    open_buys,        \* history: per market, buys the exchange accepted since the last
                      \* exit sell it accepted (counted up to 2)
    partial_sells,    \* history: per market, partial sells the exchange accepted since
                      \* the last entry or exit it accepted (counted up to 2)
    conn,             \* the websocket: "closed" | "open"
    ws_backoff,       \* local `backoff` of the loop, in tenths of a second
    ws_slept,         \* history: the last asyncio.sleep(backoff): Absent or Some
    ws_attempt,       \* history: connections that failed since the last subscription
    received,         \* history: what the last message received was
    (* ---- UpbitBroker.place_order / get_accounts and _request ---- *)
    req_pc,        \* "idle", "start", "loop" or "done"
    call,          \* the API call: "place_order" or "get_accounts"
    identifier,    \* req.identifier
    req_data,      \* the identifier in the body _request sends (params["identifier"])
    attempt,       \* iterations of the retry loop started = HTTP attempts issued
    backoff,       \* in tenths of a second
    slept,         \* the last time.sleep, in tenths of a second, with how it was
                   \* computed and the Retry-After header of the response before it
    seen,          \* the responses received so far
    sent,          \* the identifier carried by each HTTP attempt
    result,        \* how the call ended
    (* ---- the receive loop of a live function and its exchange calls ---- *)
    runner,        \* "portfolio" (run_portfolio_ws) | "live_ws" (run_live_ws); "idle": none
    inbox,         \* markets of the trade messages that arrived and wait for ws.recv()
    at,            \* where the coroutine is: "recv" | "place_order" | "get_order" | "get_accounts"
    cur,           \* the market whose tick is being handled: Absent at "recv"
    order_no,      \* orders of the tick being handled that were issued so far
    polls,         \* get_order calls issued for the order
    last_handled,  \* history: the market of the last tick taken from the socket
    (* ---- load_config ---- *)
    environ,       \* os.environ: variable name -> Absent (not set) or Some(string)
    file_data,     \* the dict read from the TOML file ({} when there is none)
    settings,      \* Absent, or Some(the Settings returned)
    (* ---- the warm-up of a live function: fetch_range_minutes and the bar window ---- *)
    warm_loop,     \* "portfolio" (run_portfolio_ws) | "live_ws" (run_live_ws); "idle": none
    warm_pc,       \* "start" | "fetch" | "fetched" | "raised" | "live"
    want,          \* max_candles
    remaining,     \* candles still asked for
    acc_len,       \* len(acc)
    fetch_backoff, \* local `backoff` of fetch_range_minutes, in tenths of a second
    requests,      \* history: HTTP requests issued by fetch_range_minutes
    last_status,   \* history: Absent, or Some(status of the last answer; 0: none came)
    win_df,        \* df: the bars kept, each named by its place in time
    win_bars,      \* bars
    live_bars      \* history: bars finalized since the websocket loop started

simArgs == <<close, cash, fee, slippage, max_fraction, cooldown_bars, stop_drawdown>>
simLocals == <<pc, i, sig, price, equity_curve, position, entry_price, trades, wins,
               cash_bal, last_trade_bar, stopped_reason, metrics, entries>>
simVars == <<simArgs, simLocals>>

aggVars == <<bucket, row, tick, ticks, ordered>>
quantVars == <<q_price, q_unit, q_result>>

reqVars == <<req_pc, call, identifier, req_data, attempt, backoff, slept, seen, sent, result>>
liveVars == <<loop, params, states, krw_bal, start_equity, equity, stopped, now, horizon, exch,
              placed, refreshed, open_buys, partial_sells, conn, ws_backoff, ws_slept,
              ws_attempt, received>>

callVars == <<runner, inbox, at, cur, order_no, polls, last_handled>>

cfgVars == <<environ, file_data, settings>>

warmVars == <<warm_loop, warm_pc, want, remaining, acc_len, fetch_backoff, requests,
              last_status, win_df, win_bars, live_bars>>

vars == <<simVars, aggVars, quantVars, liveVars, reqVars, callVars, cfgVars, warmVars>>

(* The idle values of each component *)
SimIdle ==
    /\ close = <<>> /\ cash = 0 /\ fee = 0 /\ slippage = 0 /\ max_fraction = 0
    /\ cooldown_bars = 0 /\ stop_drawdown = Absent
    /\ pc = "idle" /\ i = 0 /\ sig = 0 /\ price = 0 /\ equity_curve = <<>>
    /\ position = 0 /\ entry_price = 0 /\ trades = <<>> /\ wins = 0 /\ cash_bal = 0
    /\ last_trade_bar = 0 /\ stopped_reason = None /\ metrics = Absent /\ entries = 0

AggIdle ==
    /\ bucket = Absent /\ row = Absent /\ tick = Absent /\ ticks = <<>> /\ ordered = TRUE

QuantIdle ==
    /\ q_price = 0 /\ q_unit = Absent /\ q_result = Absent

ReqIdle ==
    /\ req_pc = "idle" /\ call = "idle" /\ identifier = Absent /\ req_data = Absent
    /\ attempt = 0 /\ backoff = 0 /\ slept = Absent /\ seen = <<>> /\ sent = <<>>
    /\ result = Absent

CfgIdle == environ = Absent /\ file_data = Absent /\ settings = Absent

WarmIdle ==
    /\ warm_loop = "idle" /\ warm_pc = "idle" /\ want = 0 /\ remaining = 0 /\ acc_len = 0
    /\ fetch_backoff = 0 /\ requests = 0 /\ last_status = Absent
    /\ win_df = <<>> /\ win_bars = 0 /\ live_bars = 0

CallIdle ==
    /\ runner = "idle" /\ inbox = <<>> /\ at = "idle" /\ cur = Absent /\ order_no = 0
    /\ polls = 0 /\ last_handled = Absent

LiveIdle ==
    /\ loop = "idle" /\ params = Absent /\ states = Absent /\ krw_bal = 0
    /\ start_equity = 0 /\ equity = 0 /\ stopped = Absent /\ now = 0 /\ horizon = 0
    /\ exch = Absent
    /\ placed = <<>> /\ refreshed = <<>> /\ open_buys = Absent /\ partial_sells = Absent
    /\ conn = "idle" /\ ws_backoff = 0 /\ ws_slept = Absent /\ ws_attempt = 0
    /\ received = "none"

(***************************************************************************)
(* simulate_long_only                                                      *)
(***************************************************************************)
SeqsUpTo(S, n) == UNION {[1..k -> S] : k \in 0..n}

(* cash_bal + position * price *)
MarkToMarket(cb, pos, px) == cb + (pos * px) \div 1000

(* A drawdown taken as eq / cash instead of (eq - cash) / cash *)
DrawdownBreached_Ratio(eq, cash0, stop) ==
    /\ IsSet(stop)
    /\ cash0 > 0
    /\ eq * 100 <= -(Val(stop) * cash0)

(* stop_drawdown is not None and cash > 0 and (eq - cash) / cash <= -stop_drawdown *)
DrawdownBreached(eq, cash0, stop) ==
    /\ IsSet(stop)
    /\ cash0 > 0
    /\ (eq - cash0) * 100 <= -(Val(stop) * cash0)

(* A cooldown that counts the current bar as elapsed *)
CooldownReady_Inclusive(idx, last, c) == (idx - last) + 1 >= c

(* (i - last_trade_bar) >= cooldown_bars *)
CooldownReady(idx, last, c) == (idx - last) >= c

(* price * (1.0 + slippage) *)
BuyPrice(px, slip) == (px * (100 + slip)) \div 100

(* price * (1.0 - slippage) *)
SellPrice(px, slip) == (px * (100 - slip)) \div 100

(* qty = (cash_bal * max_fraction) / buy_price *)
BuyQty(cb, frac, bp) == (((cb * frac) \div 100) * 1000) \div bp

(* notional = qty * price *)
Notional(qty, px) == (qty * px) \div 1000

(* fee_amt = notional * fee *)
FeeAmt(notional, feeRate) == (notional * feeRate) \div 100

(* (sell_price - entry_price) / entry_price * 100.0 - (fee * 100.0 + fee * 100.0) *)
TradeRet(sp, ep, feeRate) == ((sp - ep) * 100) \div ep - (feeRate + feeRate)

(* The bar's entry: lines 76-88.  Returns the locals it assigns, and       *)
(* whether a position was opened.                                          *)
SimEntry(px, idx, cb) ==
    LET buy_price == BuyPrice(px, slippage)
        qty == BuyQty(cb, max_fraction, buy_price)
        notional == Notional(qty, buy_price)
        fee_amt == FeeAmt(notional, fee)
    IN IF buy_price <= 0 \/ qty <= 0
       THEN [position |-> 0, cash_bal |-> cb, entry_price |-> entry_price,
             last_trade_bar |-> last_trade_bar, opened |-> 0]
       ELSE [position |-> qty, cash_bal |-> cb - notional - fee_amt,
             entry_price |-> buy_price, last_trade_bar |-> idx, opened |-> 1]

(* Selling the whole position at px: lines 123-134 and 172-183. *)
SimSell(px, pos, ep, cb) ==
    LET sell_price == SellPrice(px, slippage)
        notional == Notional(pos, sell_price)
        fee_amt == FeeAmt(notional, fee)
        proceeds == notional - fee_amt
        trade_ret == TradeRet(sell_price, ep, fee)
    IN [trade_ret |-> trade_ret, cash_bal |-> cb + proceeds]

SimInit ==
    /\ AggIdle /\ QuantIdle /\ LiveIdle /\ ReqIdle /\ CallIdle /\ CfgIdle /\ WarmIdle
    /\ close = <<>>
    /\ cash \in {0, 1000}
    /\ fee \in {0, 10}
    /\ slippage \in {0, 10}
    /\ max_fraction \in {50, 100}
    /\ cooldown_bars \in {0, 3}
    /\ stop_drawdown \in {Absent, Some(30)}
    /\ pc = "loop"
    /\ i = 0
    /\ sig = 0
    /\ price = 0
    /\ equity_curve = <<>>
    /\ position = 0
    /\ entry_price = 0
    /\ trades = <<>>
    /\ wins = 0
    /\ cash_bal = cash
    /\ last_trade_bar = -1000000000
    /\ stopped_reason = None
    /\ metrics = Absent
    /\ entries = 0

(* One iteration of `for i, price in enumerate(close)`: lines 53-168.  The  *)
(* series is an argument; the model draws each bar's close and signal when  *)
(* the loop reads it, so `close` holds the bars read so far and i = the     *)
(* index of the next bar (of the halting bar once the loop has broken).     *)
SimBarStep ==
    /\ pc = "loop"
    /\ Len(close) < MaxBars
    /\ \E px \in Prices, sg \in Signals :
        LET eq == MarkToMarket(cash_bal, position, px)
        IN
        /\ close' = Append(close, px)
        /\ sig' = sg
        /\ price' = px
        /\ equity_curve' = Append(equity_curve, eq)
        /\ IF DrawdownBreached(eq, cash, stop_drawdown)
           THEN /\ stopped_reason' = "risk_violation"
                /\ pc' = "halted"
                /\ UNCHANGED <<i, position, entry_price, trades, wins, cash_bal,
                               last_trade_bar, entries>>
           ELSE /\ UNCHANGED stopped_reason
                /\ pc' = "loop"
                /\ i' = i + 1
                /\ IF sg = 1 /\ position = 0
                      /\ CooldownReady(i, last_trade_bar, cooldown_bars)
                   THEN LET e == SimEntry(px, i, cash_bal) IN
                        /\ position' = e.position
                        /\ cash_bal' = e.cash_bal
                        /\ entry_price' = e.entry_price
                        /\ last_trade_bar' = e.last_trade_bar
                        /\ entries' = entries + e.opened
                        /\ UNCHANGED <<trades, wins>>
                   ELSE IF sg = -1 /\ position > 0
                           /\ CooldownReady(i, last_trade_bar, cooldown_bars)
                   THEN LET s == SimSell(px, position, entry_price, cash_bal) IN
                        /\ trades' = Append(trades, s.trade_ret)
                        /\ wins' = IF s.trade_ret > 0 THEN wins + 1 ELSE wins
                        /\ cash_bal' = s.cash_bal
                        /\ position' = 0
                        /\ entry_price' = 0
                        /\ last_trade_bar' = i
                        /\ UNCHANGED entries
                   ELSE UNCHANGED <<position, entry_price, trades, wins, cash_bal,
                                    last_trade_bar, entries>>
    /\ UNCHANGED metrics
    /\ UNCHANGED <<cash, fee, slippage, max_fraction, cooldown_bars, stop_drawdown>>

(* The iteration as a step of simulate_long_only alone *)
SimBar ==
    /\ SimBarStep
    /\ UNCHANGED <<aggVars, quantVars, liveVars, reqVars, callVars, cfgVars, warmVars>>

(* A return that closes the open position only when the loop completed *)
SimAfterLoop_KeepOnHalt(closeAll) ==
    /\ pc' = "done"
    /\ close' = closeAll
    /\ LET closing == position > 0 /\ Len(closeAll) > 0 /\ stopped_reason = None
           px == IF closing THEN closeAll[Len(closeAll)] ELSE price
           s == IF closing THEN SimSell(px, position, entry_price, cash_bal)
                ELSE [trade_ret |-> 0, cash_bal |-> cash_bal]
           curve == IF closing THEN Append(equity_curve, s.cash_bal) ELSE equity_curve
           tr == IF closing THEN Append(trades, s.trade_ret) ELSE trades
           w == IF closing /\ s.trade_ret > 0 THEN wins + 1 ELSE wins
           equity_final == IF Len(curve) > 0 THEN curve[Len(curve)] ELSE cash
       IN
       /\ price' = px
       /\ trades' = tr
       /\ wins' = w
       /\ cash_bal' = s.cash_bal
       /\ position' = (IF closing THEN 0 ELSE position)
       /\ entry_price' = IF closing THEN 0 ELSE entry_price
       /\ equity_curve' = curve
       /\ metrics' = Some([equity_final |-> equity_final,
                           ret_pct |-> IF cash > 0
                                       THEN ((equity_final - cash) * 100) \div cash
                                       ELSE 0,
                           num_trades |-> Len(tr),
                           wins |-> w,
                           StoppedReason |-> IF stopped_reason = None THEN "completed"
                                             ELSE stopped_reason])
    /\ UNCHANGED <<i, sig, last_trade_bar, stopped_reason, entries>>
    /\ UNCHANGED <<cash, fee, slippage, max_fraction, cooldown_bars, stop_drawdown>>
    /\ UNCHANGED <<aggVars, quantVars, liveVars, reqVars, callVars, cfgVars, warmVars>>

(* After the loop: lines 170-211.  closeAll is the whole series: the bars   *)
(* read, followed, when the loop broke, by the bars it never read.          *)
SimAfterLoop(closeAll) ==
    /\ pc' = "done"
    /\ close' = closeAll
    /\ LET closing == position > 0 /\ Len(closeAll) > 0
           px == IF closing THEN closeAll[Len(closeAll)] ELSE price
           s == IF closing THEN SimSell(px, position, entry_price, cash_bal)
                ELSE [trade_ret |-> 0, cash_bal |-> cash_bal]
           curve == IF closing THEN Append(equity_curve, s.cash_bal) ELSE equity_curve
           tr == IF closing THEN Append(trades, s.trade_ret) ELSE trades
           w == IF closing /\ s.trade_ret > 0 THEN wins + 1 ELSE wins
           equity_final == IF Len(curve) > 0 THEN curve[Len(curve)] ELSE cash
       IN
       /\ price' = px
       /\ trades' = tr
       /\ wins' = w
       /\ cash_bal' = s.cash_bal
       /\ position' = (IF closing THEN 0 ELSE position)
       /\ entry_price' = IF closing THEN 0 ELSE entry_price
       /\ equity_curve' = curve
       /\ metrics' = Some([equity_final |-> equity_final,
                           ret_pct |-> IF cash > 0
                                       THEN ((equity_final - cash) * 100) \div cash
                                       ELSE 0,
                           num_trades |-> Len(tr),
                           wins |-> w,
                           StoppedReason |-> IF stopped_reason = None THEN "completed"
                                             ELSE stopped_reason])
    /\ UNCHANGED <<i, sig, last_trade_bar, stopped_reason, entries>>
    /\ UNCHANGED <<cash, fee, slippage, max_fraction, cooldown_bars, stop_drawdown>>
    /\ UNCHANGED <<aggVars, quantVars, liveVars, reqVars, callVars, cfgVars, warmVars>>

(* The series is exhausted: the loop ends normally. *)
SimEnd ==
    /\ pc = "loop"
    /\ SimAfterLoop(close)

(* The loop broke on the drawdown stop at bar i; the series may go on. *)
SimEndHalted ==
    /\ pc = "halted"
    /\ \E tail \in SeqsUpTo(Prices, MaxBars - Len(close)) :
        SimAfterLoop(close \o tail)

SimNext == SimBar \/ SimEnd \/ SimEndHalted

SpecSim == SimInit /\ [][SimNext]_vars

(***************************************************************************)
(* CandleAggregator.  Timestamps are seconds; a bucket starts on a minute. *)
(***************************************************************************)
TimeStamps == {10, 40, 65, 185}
TickPrices == {95, 100, 105}
TickVolumes == {1, 2}

Max2(a, b) == IF a >= b THEN a ELSE b
Min2(a, b) == IF a <= b THEN a ELSE b

(* ts.replace(second=0, microsecond=0) *)
floor_minute(ts) == ts - (ts % 60)

(* CandleBucket(start=key, open=price, high=price, low=price, close=price, volume=volume) *)
CandleBucket(key, px, volume) ==
    [start |-> key, open |-> px, high |-> px, low |-> px, close |-> px, volume |-> volume]

(* The one-row DataFrame built from a bucket *)
BarOf(b) ==
    [timestamp |-> b.start, Open |-> b.open, High |-> b.high, Low |-> b.low,
     Close |-> b.close, Volume |-> b.volume]

(* A test for a new minute that also fires on an earlier minute *)
IsNewMinute_NotEqual(key, b) == key # b.start

(* key > self.bucket.start *)
IsNewMinute(key, b) == key > b.start

(* A merge that overwrites the volume instead of adding to it *)
Extend_VolumeLast(b, px, volume) ==
    [b EXCEPT !.high = Max2(b.high, px), !.low = Min2(b.low, px), !.close = px,
              !.volume = volume]

(* same minute: high, low, close, volume += *)
Extend(b, px, volume) ==
    [b EXCEPT !.high = Max2(b.high, px), !.low = Min2(b.low, px), !.close = px,
              !.volume = b.volume + volume]

(* An update that closes the open bucket on any other minute, earlier ones *)
(* included, and opens the tick's minute                                   *)
update_AnyOtherMinute(b, ts, px, volume) ==
    LET key == floor_minute(ts) IN
    IF b = Absent
    THEN [bucket |-> Some(CandleBucket(key, px, volume)), row |-> Absent]
    ELSE IF key # Val(b).start
    THEN [bucket |-> Some(CandleBucket(key, px, volume)), row |-> Some(BarOf(Val(b)))]
    ELSE [bucket |-> Some(Extend(Val(b), px, volume)), row |-> Absent]

(* CandleAggregator.update: the new self.bucket and the value returned *)
update(b, ts, px, volume) ==
    LET key == floor_minute(ts) IN
    IF b = Absent
    THEN [bucket |-> Some(CandleBucket(key, px, volume)), row |-> Absent]
    ELSE IF IsNewMinute(key, Val(b))
    THEN [bucket |-> Some(CandleBucket(key, px, volume)), row |-> Some(BarOf(Val(b)))]
    ELSE [bucket |-> Some(Extend(Val(b), px, volume)), row |-> Absent]

(* CandleAggregator.finalize: the new self.bucket and the value returned *)
finalize(b) ==
    IF b = Absent
    THEN [bucket |-> Absent, row |-> Absent]
    ELSE [bucket |-> Absent, row |-> Some(BarOf(Val(b)))]

AggInit ==
    /\ SimIdle /\ QuantIdle /\ LiveIdle /\ ReqIdle /\ CallIdle /\ CfgIdle /\ WarmIdle
    /\ bucket = Absent
    /\ row = Absent
    /\ tick = Absent
    /\ ticks = <<>>
    /\ ordered = TRUE

(* One call of update(ts, price, volume) *)
AggUpdate ==
    /\ \E ts \in TimeStamps, px \in TickPrices, volume \in TickVolumes :
        LET r == update(bucket, ts, px, volume)
            t == [ts |-> ts, price |-> px, volume |-> volume]
        IN
        /\ (r.row = Absent) => Len(ticks) < MaxBucketTicks
        /\ bucket' = r.bucket
        /\ row' = r.row
        /\ tick' = Some(t)
        /\ ticks' = IF r.row = Absent THEN Append(ticks, t) ELSE <<t>>
        /\ ordered' = (ordered /\ (tick = Absent \/ ts >= Val(tick).ts))
    /\ UNCHANGED <<simVars, quantVars, liveVars, reqVars, callVars, cfgVars, warmVars>>

(* One call of finalize() *)
AggFinalize ==
    /\ LET r == finalize(bucket) IN
        /\ bucket' = r.bucket
        /\ row' = r.row
    /\ ticks' = <<>>
    /\ UNCHANGED <<tick, ordered>>
    /\ UNCHANGED <<simVars, quantVars, liveVars, reqVars, callVars, cfgVars, warmVars>>

AggNext == AggUpdate \/ AggFinalize

SpecAgg == AggInit /\ [][AggNext]_vars

(***************************************************************************)
(* UpbitBroker.quantize_price.  Amounts are in tenths: 100.7 is 1007.      *)
(***************************************************************************)
(* Python's int(a / b) for b > 0: truncation toward zero *)
IntDiv(a, b) == IF a >= 0 THEN a \div b ELSE -((-a) \div b)

(* A quantization that rounds to the nearest multiple *)
quantize_price_Nearest(p, price_unit) ==
    IF price_unit = Absent \/ Val(price_unit) <= 0
    THEN p
    ELSE IntDiv(2 * p + Val(price_unit), 2 * Val(price_unit)) * Val(price_unit)

(* if not price_unit or price_unit <= 0: return price                      *)
(* return (int(price / price_unit)) * price_unit                           *)
quantize_price(p, price_unit) ==
    IF price_unit = Absent \/ Val(price_unit) <= 0
    THEN p
    ELSE IntDiv(p, Val(price_unit)) * Val(price_unit)

(* price units given to quantize_price: None, negative, zero, positive *)
PriceUnits == {Absent, Some(-10), Some(0), Some(1), Some(5), Some(10), Some(25)}

QuantInit ==
    /\ SimIdle /\ AggIdle /\ LiveIdle /\ ReqIdle /\ CallIdle /\ CfgIdle /\ WarmIdle
    /\ q_price \in (0..MaxPrice) \cup {1007}
    /\ q_unit \in PriceUnits
    /\ q_result = Absent

QuantCall ==
    /\ q_result = Absent
    /\ q_result' = Some(quantize_price(q_price, q_unit))
    /\ UNCHANGED <<q_price, q_unit>>
    /\ UNCHANGED <<simVars, aggVars, liveVars, reqVars, callVars, cfgVars, warmVars>>

QuantNext == QuantCall

SpecQuant == QuantInit /\ [][QuantNext]_vars

(***************************************************************************)
(* UpbitBroker._request under place_order and get_accounts.  Times are in  *)
(* tenths of a second.  The API keys are present and the order is well     *)
(* formed, so _require_keys and the ValueError checks of place_order pass. *)
(***************************************************************************)
max_retries == 5

(* HTTP statuses a response can carry; 0 stands for no response at all     *)
(* (httpx.RequestError)                                                    *)
Statuses == {200, 400, 401, 403, 404, 422, 429, 500, 501, 502, 503, 504, 599}

(* Values of the Retry-After header: none, a delay, an HTTP date, a delay  *)
(* of 20 digits                                                            *)
RetryAfters == {"", "2", "Wed, 21 Oct 2026 07:28:00 GMT", "99999999999999999999"}

Responses ==
    {[status |-> 0, retry_after |-> ""]}
    \cup {[status |-> st, retry_after |-> ""] : st \in Statuses}
    \cup {[status |-> st, retry_after |-> h] : st \in {429, 503}, h \in RetryAfters}

(* str(uuid.uuid4()) *)
uuid4 == "uuid-1"

(* Python truthiness of an Optional[str] *)
TruthyStr(o) == IsSet(o) /\ Val(o) # ""

(* r.raise_for_status() raises httpx.HTTPStatusError *)
IsErrorStatus(st) == st >= 400

(* status in (429, 500, 502, 503, 504) *)
IsRetryable(st) == st \in {429, 500, 502, 503, 504}

(* The taxonomy with 404 left to the 4xx rule *)
RaiseHttpError_No404(st) ==
    IF st = 401 THEN "AuthenticationError"
    ELSE IF st = 403 THEN "PermissionError"
    ELSE IF st = 429 THEN "RateLimitError"
    ELSE IF st # 0 /\ 400 <= st /\ st < 500 THEN "InvalidRequestError"
    ELSE "ExchangeError"

(* _raise_http_error(e): the class raised for a status *)
RaiseHttpError(st) ==
    IF st = 401 THEN "AuthenticationError"
    ELSE IF st = 403 THEN "PermissionError"
    ELSE IF st = 404 THEN "NotFoundError"
    ELSE IF st = 429 THEN "RateLimitError"
    ELSE IF st # 0 /\ 400 <= st /\ st < 500 THEN "InvalidRequestError"
    ELSE "ExchangeError"

(* ra: 0.0 unless the header is there and float() takes it; a delay of 20  *)
(* digits is beyond what time.sleep accepts                                *)
RetryAfterOf(h) ==
    IF h = "2" THEN [huge |-> FALSE, v |-> 20]
    ELSE IF h = "99999999999999999999" THEN [huge |-> TRUE, v |-> 0]
    ELSE [huge |-> FALSE, v |-> 0]

(* backoff = min(backoff * 2.0, 8.0) *)
NextBackoff(b) == Min2(b * 2, 80)

(* A wait that ignores the Retry-After header *)
JitteredWait_NoHint(b, ra, half) ==
    b + (IF half THEN b \div 10 ELSE 0)

(* wait = max(backoff, ra); wait * (1.0 + 0.2 * random.random()), the      *)
(* random draw being 0 or 0.5                                              *)
JitteredWait(b, ra, half) ==
    LET wait == Max2(b, ra) IN wait + (IF half THEN wait \div 10 ELSE 0)

(* A retry that draws a new identifier *)
AttemptData_Fresh(d, n) == IF n = 0 \/ d = Absent THEN d ELSE Some("uuid-2")

(* data=params: the identifier in the body of the n-th attempt *)
AttemptData(d, n) == d

ReqInit ==
    /\ SimIdle /\ AggIdle /\ QuantIdle /\ LiveIdle /\ CallIdle /\ CfgIdle /\ WarmIdle
    /\ req_pc = "start"
    /\ call \in {"place_order", "get_accounts"}
    /\ identifier \in {Absent, Some(""), Some("caller-1")}
    /\ (call = "get_accounts") => (identifier = Absent)
    /\ req_data = Absent
    /\ attempt = 0
    /\ backoff = 0
    /\ slept = Absent
    /\ seen = <<>>
    /\ sent = <<>>
    /\ result = Absent

(* place_order lines 154-159, get_accounts lines 120-122, _request line 88 *)
ReqStart ==
    /\ req_pc = "start"
    /\ IF call = "place_order"
       THEN /\ identifier' = (IF TruthyStr(identifier) THEN identifier ELSE Some(uuid4))
            /\ req_data' = identifier'
       ELSE UNCHANGED <<identifier, req_data>>
    /\ backoff' = 5
    /\ req_pc' = "loop"
    /\ UNCHANGED <<call, attempt, slept, seen, sent, result>>
    /\ UNCHANGED <<simVars, aggVars, quantVars, liveVars, callVars, cfgVars, warmVars>>

(* One iteration of the retry loop: lines 89-115 *)
ReqAttempt ==
    /\ req_pc = "loop"
    /\ attempt < max_retries
    /\ \E r \in Responses, half \in BOOLEAN :
        LET ra == RetryAfterOf(r.retry_after) IN
        /\ attempt' = attempt + 1
        /\ sent' = Append(sent, AttemptData(req_data, attempt))
        /\ seen' = Append(seen, r.status)
        /\ IF r.status = 0
           THEN /\ ~half
                /\ slept' = Some([t |-> backoff, jitter |-> FALSE,
                                  retry_after |-> r.retry_after])
                /\ backoff' = NextBackoff(backoff)
                /\ UNCHANGED <<req_pc, result>>
           ELSE IF ~IsErrorStatus(r.status)
           THEN /\ ~half
                /\ req_pc' = "done"
                /\ result' = Some([returned |-> TRUE, error |-> ""])
                /\ UNCHANGED <<slept, backoff>>
           ELSE IF IsRetryable(r.status)
           THEN IF ra.huge
                THEN /\ ~half
                     /\ req_pc' = "done"
                     /\ result' = Some([returned |-> FALSE, error |-> "OverflowError"])
                     /\ UNCHANGED <<slept, backoff>>
                ELSE /\ slept' = Some([t |-> JitteredWait(backoff, ra.v, half),
                                       jitter |-> TRUE,
                                       retry_after |-> r.retry_after])
                     /\ backoff' = NextBackoff(backoff)
                     /\ UNCHANGED <<req_pc, result>>
           ELSE /\ ~half
                /\ req_pc' = "done"
                /\ result' = Some([returned |-> FALSE, error |-> RaiseHttpError(r.status)])
                /\ UNCHANGED <<slept, backoff>>
    /\ UNCHANGED <<call, identifier, req_data>>
    /\ UNCHANGED <<simVars, aggVars, quantVars, liveVars, callVars, cfgVars, warmVars>>

(* The loop ran out: line 116 *)
ReqExhausted ==
    /\ req_pc = "loop"
    /\ attempt = max_retries
    /\ req_pc' = "done"
    /\ result' = Some([returned |-> FALSE, error |-> "RateLimitError"])
    /\ UNCHANGED <<call, identifier, req_data, attempt, backoff, slept, seen, sent>>
    /\ UNCHANGED <<simVars, aggVars, quantVars, liveVars, callVars, cfgVars, warmVars>>

ReqNext == ReqStart \/ ReqAttempt \/ ReqExhausted

SpecReq == ReqInit /\ [][ReqNext]_vars

(***************************************************************************)
(* The exchange, as the live loops see it through UpbitBroker.  A balance  *)
(* is the available amount: an accepted order locks what it spends at      *)
(* once and credits what it buys when it fills.  A market order fills at   *)
(* the market's latest trade price, at once or later.                      *)
(***************************************************************************)
Markets == {"A", "B"}
LivePrices(m) == IF m = "A" THEN {50, 100} ELSE {100}

(* The order waiting at market m fills at price px *)
ExFillOrder(e, m, px) ==
    LET o == Val(e.pending[m]) IN
    IF o.side = "buy"
    THEN [e EXCEPT !.coin[m] = @ + (o.funds * 1000) \div px, !.pending[m] = Absent]
    ELSE [e EXCEPT !.krw = @ + Notional(o.size, px), !.pending[m] = Absent]

(* The exchange has what order o spends *)
ExFeasible(e, m, o) ==
    IF o.side = "buy" THEN o.funds > 0 /\ o.funds <= e.krw
    ELSE o.size > 0 /\ o.size <= e.coin[m]

(* The exchange accepts order o: an order still waiting fills first *)
ExAccept(e, m, o, px, fillNow) ==
    LET e0 == IF e.pending[m] # Absent THEN ExFillOrder(e, m, px) ELSE e
        e1 == IF o.side = "buy" THEN [e0 EXCEPT !.krw = @ - o.funds]
              ELSE [e0 EXCEPT !.coin[m] = @ - o.size]
        e2 == [e1 EXCEPT !.pending[m] = Some(o)]
    IN IF fillNow THEN ExFillOrder(e2, m, px) ELSE e2

(* The exceptions place_order raises when the exchange refuses the order:  *)
(* upbit.py lines 186-196 (401, 403, another 4xx, anything else)           *)
OrderErrors ==
    {"AuthenticationError", "InvalidRequestError"}

(* broker.place_order(req) in a loop whose locals are c: the call either   *)
(* raises with nothing accepted, or the exchange accepts the order and the *)
(* call returns, or the exchange accepts it and the call raises (the       *)
(* response is lost and the retries run out).  Each outcome: the locals    *)
(* after, and whether raised.                                              *)
PlaceOrder(c, m, o, kind, px) ==
    LET order(err) == [c EXCEPT !.placed = Append(@, [market |-> m, side |-> o.side,
                                                      kind |-> kind, funds |-> o.funds,
                                                      size |-> o.size, error |-> err,
                                                      status_checked |-> FALSE])]
        acc(fillNow, err) ==
            [order(err) EXCEPT !.ex = ExAccept(c.ex, m, o, px, fillNow),
                       !.open = IF kind = "entry" THEN Min2(@ + 1, 2)
                                ELSE IF kind = "exit" THEN 0 ELSE @,
                       !.partials = IF kind = "partial" THEN Min2(@ + 1, 2) ELSE 0]
    IN {[ctx |-> order(err), raised |-> TRUE] : err \in OrderErrors}
       \cup (IF ExFeasible(c.ex, m, o)
             THEN {[ctx |-> acc(f, IF l THEN "RateLimitError" ELSE ""), raised |-> l]
                     : f \in BOOLEAN, l \in BOOLEAN}
             ELSE {})

(* A row of the accounts list: a zero balance may be listed or left out *)
AccountRow(bal, listZero) == IF bal > 0 \/ listZero THEN Some(bal) ELSE Absent

(* broker.get_accounts(): raises (some UpbitError), or returns the KRW row *)
(* and m's coin row                                                       *)
GetAccounts(e, m) ==
    {[raised |-> TRUE, krw |-> Absent, coin |-> Absent, error |-> "UpbitError"]}
    \cup {[raised |-> FALSE, krw |-> AccountRow(e.krw, z), coin |-> AccountRow(e.coin[m], z),
           error |-> ""]
            : z \in BOOLEAN}

(* The locals c after get_accounts gave a *)
Read(c, a) ==
    [c EXCEPT !.reads = Append(@, [krw |-> a.krw, coin |-> a.coin, error |-> a.error])]

(* The locals c after at least one get_order call for the order just placed *)
StatusChecked(c) ==
    [c EXCEPT !.placed[Len(c.placed)].status_checked = TRUE]

(***************************************************************************)
(* run_portfolio_ws and run_live_ws                                        *)
(***************************************************************************)
PortfolioWindowCap == 2000
LiveWsWindowCap == 600

(* values of the ATR indicator on the window: NaN or a number *)
ATRs == {Absent, Some(25)}

(* Python truthiness of an Optional[float] *)
Truthy(o) == IsSet(o) /\ Val(o) # 0

RECURSIVE SumOver(_, _)
SumOver(f, S) ==
    IF S = {} THEN 0 ELSE LET x == CHOOSE x \in S : TRUE IN f[x] + SumOver(f, S \ {x})

(* float(s.df["Close"].iat[-1]) if len(s.df) > 0 else 0.0 *)
LastClose(st) == IF Len(st.df) > 0 THEN st.df[Len(st.df)] ELSE 0

(* krw_bal + sum(s.coin_qty * (price if s.market == mkt else last close)) *)
PortfolioEquity(S, kb, mkt, px) ==
    kb + SumOver([m \in DOMAIN S |->
                    Notional(S[m].coin_qty, IF m = mkt THEN px ELSE LastClose(S[m]))],
                 DOMAIN S)

(* krw_bal + coin_qty * price *)
LiveWsEquity(S, kb, mkt, px) == kb + Notional(S[mkt].coin_qty, px)

(* A drawdown taken as equity / start_equity *)
RiskBreached_Ratio(eq, start, mdl) ==
    /\ start > 0
    /\ mdl > 0
    /\ eq * 100 <= -(mdl * start)

(* start_equity > 0 and max_daily_loss > 0                                 *)
(* and (equity - start_equity) / start_equity <= -float(max_daily_loss)    *)
RiskBreached(eq, start, mdl) ==
    /\ start > 0
    /\ mdl > 0
    /\ (eq - start) * 100 <= -(mdl * start)

(* (st.bars - st.last_trade_bar) >= cooldown_bars *)
LiveCooldownReady(b, last, c) == (b - last) >= c

(* st.df = pd.concat([st.df, row]); keep the last cap rows; st.bars += 1 *)
AppendBar(st, bar, cap) ==
    LET d == Append(st.df, bar.Close) IN
    [st EXCEPT !.df = IF Len(d) > cap THEN SubSeq(d, Len(d) - cap + 1, Len(d)) ELSE d,
               !.bars = @ + 1]

(* A trailing stop that follows the close down as well as up *)
TrailChoices_Follow(st) ==
    IF st.coin_qty > 0 /\ params.atr_trailing_mult > 0
    THEN {IF a = Absent THEN st
          ELSE [st EXCEPT !.trail_stop =
                   Some(Max2(0, LastClose(st) - params.atr_trailing_mult * Val(a)))]
            : a \in ATRs}
    ELSE {st}

(* ATR trailing stop: portfolio_ws.py lines 232-240 *)
TrailChoices(st) ==
    IF st.coin_qty > 0 /\ params.atr_trailing_mult > 0
    THEN {IF a = Absent THEN st
          ELSE [st EXCEPT !.trail_stop =
                   Some(Max2(IF IsSet(@) THEN Val(@) ELSE 0,
                             LastClose(st) - params.atr_trailing_mult * Val(a)))]
            : a \in ATRs}
    ELSE {st}

(* do_exit: portfolio_ws.py lines 248-253 *)
DoExit(st, s_val, close_px) ==
    /\ st.coin_qty > 0
    /\ \/ IsSet(st.trail_stop) /\ close_px <= Val(st.trail_stop)
       \/ s_val = -1

(* Exit: portfolio_ws.py lines 254-267 *)
PfExit(c, m, px) ==
    UNION {
        IF p.raised THEN {p.ctx}
        ELSE {IF a.raised THEN Read(p.ctx, a)
              ELSE [Read(p.ctx, a) EXCEPT
                      !.krw_bal = IF IsSet(a.krw) THEN Val(a.krw) ELSE @,
                      !.st.coin_qty = IF IsSet(a.coin) THEN Val(a.coin) ELSE 0,
                      !.st.entry_price = 0,
                      !.st.trail_stop = Absent,
                      !.st.partial_done = FALSE,
                      !.st.last_trade_bar = p.ctx.st.bars]
                : a \in GetAccounts(p.ctx.ex, m)}
        : p \in PlaceOrder(c, m, [side |-> "sell", funds |-> 0, size |-> c.st.coin_qty],
                           "exit", px)}

(* Partial take-profit: portfolio_ws.py lines 269-282 *)
PfPartial(c, m, px, s_val, close_px) ==
    LET st == c.st
        target == (st.entry_price * (100 + params.partial_tp_pct)) \div 100
        size == (st.coin_qty * params.partial_tp_ratio) \div 100
    IN
    IF /\ st.coin_qty > 0 /\ params.partial_tp_pct > 0 /\ s_val >= 0
       /\ st.entry_price > 0 /\ target # 0 /\ close_px >= target /\ ~st.partial_done
    THEN UNION {
            IF p.raised THEN {p.ctx}
            ELSE {IF a.raised THEN Read(p.ctx, a)
                  ELSE [Read(p.ctx, a) EXCEPT
                          !.krw_bal = IF IsSet(a.krw) THEN Val(a.krw) ELSE @,
                          !.st.coin_qty = IF IsSet(a.coin) THEN Val(a.coin) ELSE @ - size,
                          !.st.partial_done = TRUE]
                    : a \in GetAccounts(p.ctx.ex, m)}
            : p \in PlaceOrder(c, m, [side |-> "sell", funds |-> 0, size |-> size],
                               "partial", px)}
    ELSE {c}

(* Seconds in a day, and the time of day, in the configured timezone, at   *)
(* which the session's clock reads 0: 23:58:00                             *)
DaySeconds == 24 * 3600
SessionStart == 23 * 3600 + 58 * 60

(* ts.astimezone(ZoneInfo(tz)).time(), in seconds since midnight *)
ClockOf(ts) == (SessionStart + ts) % DaySeconds

(* _parse_hours_windows("23:59-00:00"): one window that crosses midnight *)
AllowedHours == <<<<23 * 3600 + 59 * 60, 0>>>>

(* _in_windows(ts, windows, tz), t the time of day of ts *)
in_windows(t, windows) ==
    IF windows = <<>> THEN TRUE
    ELSE \E k \in DOMAIN windows :
            LET s == windows[k][1]
                e == windows[k][2]
            IN IF s <= e THEN s <= t /\ t <= e
               ELSE t >= s \/ t <= e

(* An entry that counts the bar as traded even when place_order raised *)
PfEntry_MarkOnFailure(c, m, px, s_val, within, close_px) ==
    LET st == c.st
        budget == (c.krw_bal * params.max_fraction) \div 100
        funds == IF Truthy(st.price_unit) THEN quantize_price(budget, st.price_unit)
                 ELSE budget
    IN
    IF /\ s_val = 1 /\ st.coin_qty = 0 /\ within
       /\ LiveCooldownReady(st.bars, st.last_trade_bar, params.cooldown_bars)
    THEN IF Truthy(st.min_total) /\ budget < Val(st.min_total)
         THEN {c}
         ELSE UNION {
                IF p.raised THEN {[p.ctx EXCEPT !.st.last_trade_bar = p.ctx.st.bars]}
                ELSE {IF a.raised THEN Read(p.ctx, a)
                      ELSE [Read(p.ctx, a) EXCEPT
                              !.krw_bal = IF IsSet(a.krw) THEN Val(a.krw) ELSE @,
                              !.st.coin_qty = IF IsSet(a.coin) THEN Val(a.coin) ELSE @,
                              !.st.entry_price = close_px,
                              !.st.trail_stop = Absent,
                              !.st.partial_done = FALSE,
                              !.st.last_trade_bar = p.ctx.st.bars]
                        : a \in GetAccounts(p.ctx.ex, m)}
                : p \in PlaceOrder(c, m, [side |-> "buy", funds |-> funds, size |-> 0],
                                   "entry", px)}
    ELSE {c}

(* Entry: portfolio_ws.py lines 284-304 *)
PfEntry(c, m, px, s_val, within, close_px) ==
    LET st == c.st
        budget == (c.krw_bal * params.max_fraction) \div 100
        funds == IF Truthy(st.price_unit) THEN quantize_price(budget, st.price_unit)
                 ELSE budget
    IN
    IF /\ s_val = 1 /\ st.coin_qty = 0 /\ within
       /\ LiveCooldownReady(st.bars, st.last_trade_bar, params.cooldown_bars)
    THEN IF Truthy(st.min_total) /\ budget < Val(st.min_total)
         THEN {c}
         ELSE UNION {
                IF p.raised THEN {p.ctx}
                ELSE {IF a.raised THEN Read(p.ctx, a)
                      ELSE [Read(p.ctx, a) EXCEPT
                              !.krw_bal = IF IsSet(a.krw) THEN Val(a.krw) ELSE @,
                              !.st.coin_qty = IF IsSet(a.coin) THEN Val(a.coin) ELSE @,
                              !.st.entry_price = close_px,
                              !.st.trail_stop = Absent,
                              !.st.partial_done = FALSE,
                              !.st.last_trade_bar = p.ctx.st.bars]
                        : a \in GetAccounts(p.ctx.ex, m)}
                : p \in PlaceOrder(c, m, [side |-> "buy", funds |-> funds, size |-> 0],
                                   "entry", px)}
    ELSE {c}

(* A bar on which the entry block is still evaluated after the exit *)
PfBar_ExitThenEntry(c, m, px, bar, s_val, within) ==
    LET close_px == bar.Close
        st1 == [AppendBar(c.st, bar, PortfolioWindowCap) EXCEPT !.last_signal = s_val]
    IN UNION {
        LET c1 == [c EXCEPT !.st = st2] IN
        IF DoExit(st2, s_val, close_px)
        THEN UNION {PfEntry(c2, m, px, s_val, within, close_px) : c2 \in PfExit(c1, m, px)}
        ELSE UNION {PfEntry(c2, m, px, s_val, within, close_px)
                      : c2 \in PfPartial(c1, m, px, s_val, close_px)}
        : st2 \in TrailChoices(st1)}

(* A finalized bar in run_portfolio_ws: lines 207-304.  c holds the locals  *)
(* the bar's code can change; the result is every outcome of the bar.       *)
PfBar(c, m, px, bar, s_val, within) ==
    LET close_px == bar.Close
        st1 == [AppendBar(c.st, bar, PortfolioWindowCap) EXCEPT !.last_signal = s_val]
    IN UNION {
        LET c1 == [c EXCEPT !.st = st2] IN
        IF DoExit(st2, s_val, close_px)
        THEN PfExit(c1, m, px)
        ELSE UNION {PfEntry(c2, m, px, s_val, within, close_px)
                      : c2 \in PfPartial(c1, m, px, s_val, close_px)}
        : st2 \in TrailChoices(st1)}

(* Entry in run_live_ws: ws_loop.py lines 252-301.  The status polling of *)
(* lines 265-293 runs when place_order returned (the response of an        *)
(* accepted order carries its uuid) and only logs; the time it takes is    *)
(* the order filling at once or later.                                     *)
LwEntry(c, m, px, s) ==
    LET st == c.st
        b0 == (c.krw_bal * params.max_fraction) \div 100
        q == quantize_price(b0, st.price_unit)
        budget == IF Truthy(st.price_unit) /\ q > 0 THEN q ELSE b0
    IN
    IF Truthy(st.min_total) /\ budget < Val(st.min_total)
    THEN {c}
    ELSE UNION {
            IF p.raised THEN {p.ctx}
            ELSE {IF a.raised
                  THEN [Read(StatusChecked(p.ctx), a) EXCEPT
                          !.st.last_trade_bar = p.ctx.st.bars]
                  ELSE [Read(StatusChecked(p.ctx), a) EXCEPT
                          !.st.last_trade_bar = p.ctx.st.bars,
                          !.krw_bal = IF IsSet(a.krw) THEN Val(a.krw) ELSE @,
                          !.st.coin_qty = IF IsSet(a.coin) THEN Val(a.coin) ELSE @]
                    : a \in GetAccounts(p.ctx.ex, m)}
            : p \in PlaceOrder(c, m, [side |-> "buy", funds |-> budget, size |-> 0],
                               "entry", px)}

(* Exit in run_live_ws: ws_loop.py lines 302-340 *)
LwExit(c, m, px) ==
    UNION {
        IF p.raised THEN {p.ctx}
        ELSE {IF a.raised
                  THEN [Read(StatusChecked(p.ctx), a) EXCEPT
                          !.st.last_trade_bar = p.ctx.st.bars]
              ELSE [Read(StatusChecked(p.ctx), a) EXCEPT
                      !.st.last_trade_bar = p.ctx.st.bars,
                      !.krw_bal = IF IsSet(a.krw) THEN Val(a.krw) ELSE @,
                      !.st.coin_qty = IF IsSet(a.coin) THEN Val(a.coin) ELSE 0]
                : a \in GetAccounts(p.ctx.ex, m)}
        : p \in PlaceOrder(c, m, [side |-> "sell", funds |-> 0, size |-> c.st.coin_qty],
                           "exit", px)}

(* A bar whose exit does not wait for the cooldown *)
LwBar_ExitAnytime(c, m, px, bar, s) ==
    LET c1 == [c EXCEPT !.st = [AppendBar(c.st, bar, LiveWsWindowCap) EXCEPT
                                  !.last_signal = s]]
        cooldown_ready ==
            LiveCooldownReady(c1.st.bars, c1.st.last_trade_bar, params.cooldown_bars)
    IN
    IF s = 1 /\ c1.st.coin_qty = 0 /\ cooldown_ready THEN LwEntry(c1, m, px, s)
    ELSE IF s = -1 /\ c1.st.coin_qty > 0 THEN LwExit(c1, m, px)
    ELSE {c1}

(* A finalized bar in run_live_ws: lines 195-342 *)
LwBar(c, m, px, bar, s) ==
    LET c1 == [c EXCEPT !.st = [AppendBar(c.st, bar, LiveWsWindowCap) EXCEPT
                                  !.last_signal = s]]
        cooldown_ready ==
            LiveCooldownReady(c1.st.bars, c1.st.last_trade_bar, params.cooldown_bars)
    IN
    IF s = 1 /\ c1.st.coin_qty = 0 /\ cooldown_ready THEN LwEntry(c1, m, px, s)
    ELSE IF s = -1 /\ c1.st.coin_qty > 0 /\ cooldown_ready THEN LwExit(c1, m, px)
    ELSE {c1}

(* MarketState(...) as run_portfolio_ws builds it (lines 128-140); the     *)
(* locals agg, df, bars, last_trade_bar, last_signal, coin_qty,            *)
(* price_unit, min_total                                                   *)
(* of run_live_ws (lines 66-106) are kept in the same record.              *)
MarketState(pu, mt) ==
    [agg |-> Absent, df |-> <<>>, bars |-> 0, last_trade_bar |-> -1000000000,
     last_signal |-> 0,
     coin_qty |-> 0, entry_price |-> 0, trail_stop |-> Absent, partial_done |-> FALSE,
     price_unit |-> pu, min_total |-> mt]

(* The arguments the model runs the loops with: two markets with the risk  *)
(* limit alone, one market with the risk limit, the trailing stop and the  *)
(* partial take-profit, one market with the cooldown alone, one market     *)
(* with the allowed hours alone                                            *)
LiveParams ==
    {[markets |-> Markets, max_fraction |-> 50, max_daily_loss |-> 20, cooldown_bars |-> 0,
      atr_trailing_mult |-> 0, partial_tp_pct |-> 0, partial_tp_ratio |-> 50,
      hours_windows |-> <<>>]}
    \cup {[markets |-> {"A"}, max_fraction |-> 50, max_daily_loss |-> 20, cooldown_bars |-> 0,
           atr_trailing_mult |-> 1, partial_tp_pct |-> 50, partial_tp_ratio |-> 50,
           hours_windows |-> <<>>],
          [markets |-> {"A"}, max_fraction |-> 50, max_daily_loss |-> 0, cooldown_bars |-> 2,
           atr_trailing_mult |-> 0, partial_tp_pct |-> 0, partial_tp_ratio |-> 50,
           hours_windows |-> <<>>],
          [markets |-> {"A"}, max_fraction |-> 50, max_daily_loss |-> 0, cooldown_bars |-> 0,
           atr_trailing_mult |-> 0, partial_tp_pct |-> 0, partial_tp_ratio |-> 50,
           hours_windows |-> AllowedHours]}

(* get_market_limits(market): price_unit and min_total, or nothing *)
MarketLimits == {<<Absent, Absent>>, <<Some(100), Some(300)>>, <<Some(300), Some(400)>>}

(* The locals of both loops when the websocket loop is entered:           *)
(* portfolio_ws.py lines 121-162, ws_loop.py lines 66-106                  *)
LiveSetup(lim) ==
    /\ SimIdle /\ AggIdle /\ QuantIdle /\ ReqIdle /\ CallIdle /\ CfgIdle /\ WarmIdle
    /\ loop \in {"portfolio", "live_ws"}
    /\ (loop = "live_ws") => (params.markets = {"A"} /\ params.hours_windows = <<>>)
    /\ states = [m \in params.markets |-> MarketState(lim[1], lim[2])]
    /\ krw_bal = 1000
    /\ start_equity = krw_bal
    /\ equity = krw_bal
    /\ stopped = Absent
    /\ now = 0
    /\ exch = [krw |-> 1000, coin |-> [m \in Markets |-> 0],
               pending |-> [m \in Markets |-> Absent]]
    /\ placed = <<>>
    /\ refreshed = <<>>
    /\ open_buys = [m \in Markets |-> 0]
    /\ partial_sells = [m \in Markets |-> 0]
    /\ ws_backoff = 5
    /\ ws_slept = Absent
    /\ ws_attempt = 0
    /\ received = "none"

(* A session whose connection is up and stays up *)
LiveInit ==
    /\ params \in LiveParams
    /\ \E lim \in MarketLimits :
          /\ (params.markets = Markets) => (lim = <<Absent, Absent>>)
          /\ (lim = <<Some(300), Some(400)>>) => (params.hours_windows # <<>>)
          /\ (lim = <<Some(100), Some(300)>>) => (params.atr_trailing_mult = 0)
          /\ LiveSetup(lim)
          /\ (loop = "live_ws") =>
                (params.atr_trailing_mult = 0 /\ params.partial_tp_pct = 0)
    /\ conn = "open"
    /\ horizon = (IF params.markets = Markets THEN MaxMinuteShort ELSE MaxMinute)

(* One trade message handled by run_portfolio_ws: lines 179-304 *)
PortfolioTick ==
    /\ loop = "portfolio"
    /\ stopped = Absent
    /\ conn = "open"
    /\ \E m \in params.markets, adv \in {0, 1} : \E px \in LivePrices(m) :
        /\ now + adv <= horizon
        /\ now' = now + adv
        /\ LET st == states[m]
               r == update(st.agg, 60 * (now + adv) + 30, px, 0)
               eq == PortfolioEquity(states, krw_bal, m, px)
               c0 == [st |-> [st EXCEPT !.agg = r.bucket], krw_bal |-> krw_bal,
                      ex |-> exch, placed |-> <<>>, reads |-> <<>>,
                      open |-> open_buys[m],
                      partials |-> partial_sells[m]]
           IN
           /\ equity' = eq
           /\ IF RiskBreached(eq, start_equity, params.max_daily_loss)
              THEN /\ stopped' = Some([stopped |-> "risk", equity |-> eq])
                   /\ states' = [states EXCEPT ![m] = c0.st]
                   /\ placed' = <<>>
                   /\ refreshed' = <<>>
                   /\ UNCHANGED <<krw_bal, exch, open_buys, partial_sells>>
              ELSE /\ UNCHANGED stopped
                   /\ \E c \in (IF r.row = Absent THEN {c0}
                                ELSE UNION {PfBar(c0, m, px, Val(r.row), s_val,
                                                  in_windows(ClockOf(Val(r.row).timestamp),
                                                             params.hours_windows))
                                              : s_val \in Signals}) :
                        /\ states' = [states EXCEPT ![m] = c.st]
                        /\ krw_bal' = c.krw_bal
                        /\ exch' = c.ex
                        /\ placed' = c.placed
                        /\ refreshed' = c.reads
                        /\ open_buys' = [open_buys EXCEPT ![m] = c.open]
                        /\ partial_sells' = [partial_sells EXCEPT ![m] = c.partials]
    /\ received' = "trade"
    /\ UNCHANGED <<loop, params, start_equity, horizon, conn, ws_backoff, ws_slept,
                   ws_attempt>>
    /\ UNCHANGED <<simVars, aggVars, quantVars, reqVars, callVars, cfgVars, warmVars>>

(* One trade message handled by run_live_ws: lines 155-342 *)
LiveWsTickStep ==
    /\ loop = "live_ws"
    /\ stopped = Absent
    /\ conn = "open"
    /\ \E m \in params.markets, adv \in {0, 1} : \E px \in LivePrices(m) :
        /\ now + adv <= horizon
        /\ now' = now + adv
        /\ LET st == states[m]
               r == update(st.agg, 60 * (now + adv) + 30, px, 0)
               eq == LiveWsEquity(states, krw_bal, m, px)
               c0 == [st |-> [st EXCEPT !.agg = r.bucket], krw_bal |-> krw_bal,
                      ex |-> exch, placed |-> <<>>, reads |-> <<>>,
                      open |-> open_buys[m],
                      partials |-> partial_sells[m]]
           IN
           /\ equity' = eq
           /\ IF RiskBreached(eq, start_equity, params.max_daily_loss)
              THEN /\ stopped' = Some([bars |-> st.bars, krw |-> krw_bal,
                                    coin_qty |-> st.coin_qty, stopped |-> "risk"])
                   /\ states' = [states EXCEPT ![m] = c0.st]
                   /\ placed' = <<>>
                   /\ refreshed' = <<>>
                   /\ UNCHANGED <<krw_bal, exch, open_buys, partial_sells>>
              ELSE /\ UNCHANGED stopped
                   /\ \E c \in (IF r.row = Absent THEN {c0}
                                ELSE UNION {LwBar(c0, m, px, Val(r.row), s)
                                              : s \in Signals}) :
                        /\ states' = [states EXCEPT ![m] = c.st]
                        /\ krw_bal' = c.krw_bal
                        /\ exch' = c.ex
                        /\ placed' = c.placed
                        /\ refreshed' = c.reads
                        /\ open_buys' = [open_buys EXCEPT ![m] = c.open]
                        /\ partial_sells' = [partial_sells EXCEPT ![m] = c.partials]
    /\ received' = "trade"
    /\ UNCHANGED <<loop, params, start_equity, horizon, conn, ws_backoff, ws_slept,
                   ws_attempt>>

(* The message as a step of run_live_ws alone *)
LiveWsTick ==
    /\ LiveWsTickStep
    /\ UNCHANGED <<simVars, aggVars, quantVars, reqVars, callVars, cfgVars, warmVars>>

(* The exchange fills the order waiting at market m at its latest price *)
ExchangeFill ==
    /\ loop # "idle"
    /\ \E m \in params.markets :
        /\ exch.pending[m] # Absent
        /\ states[m].agg # Absent
        /\ exch' = ExFillOrder(exch, m, Val(states[m].agg).close)
    /\ UNCHANGED <<loop, params, states, krw_bal, start_equity, equity, stopped, now,
                   horizon, placed, refreshed, open_buys, partial_sells, conn, ws_backoff,
                   ws_slept, ws_attempt, received>>
    /\ UNCHANGED <<simVars, aggVars, quantVars, reqVars, callVars, cfgVars, warmVars>>

LiveNext == PortfolioTick \/ LiveWsTick \/ ExchangeFill

SpecLive == LiveInit /\ [][LiveNext]_vars

(***************************************************************************)
(* run_portfolio_ws with the partial take-profit on, one market            *)
(***************************************************************************)
(* partial_tp_ratio, in percent: the default 0.5 and the largest value the *)
(* command line accepts, 1.0                                               *)
TakeRatios == {50, 100}

(* A session of run_portfolio_ws that takes partial profit at +50%, its    *)
(* connection up                                                           *)
TakeInit ==
    /\ \E ratio \in TakeRatios, cd \in {0, 2} :
          params = [markets |-> {"A"}, max_fraction |-> 50, max_daily_loss |-> 0,
                    cooldown_bars |-> cd, atr_trailing_mult |-> 0, partial_tp_pct |-> 50,
                    partial_tp_ratio |-> ratio, hours_windows |-> <<>>]
    /\ LiveSetup(<<Absent, Absent>>)
    /\ loop = "portfolio"
    /\ conn = "open"
    /\ horizon = MaxMinute

TakeNext == PortfolioTick \/ ExchangeFill

SpecTake == TakeInit /\ [][TakeNext]_vars

(***************************************************************************)
(* run_live_ws next to simulate_long_only: the loop handles the trades of  *)
(* one market and, each time it finalizes a bar, the simulation reads the  *)
(* same bar with the same signal (ws_loop.py lines 195-340, common.py      *)
(* lines 53-135).  Orders fill fully and at once and no exchange call      *)
(* fails; there are no market limits and no risk stop.                     *)
(***************************************************************************)
(* Balances of the coin the account may hold when the session starts *)
StartHoldings == {0, 10000}

PairInit ==
    /\ AggIdle /\ QuantIdle /\ ReqIdle /\ CallIdle /\ CfgIdle /\ WarmIdle
    /\ loop = "live_ws"
    /\ params \in {[markets |-> {"A"}, max_fraction |-> 50, max_daily_loss |-> 0,
                    cooldown_bars |-> cd, atr_trailing_mult |-> 0, partial_tp_pct |-> 0,
                    partial_tp_ratio |-> 50, hours_windows |-> <<>>] : cd \in {0, 2}}
    /\ \E held \in StartHoldings :
          /\ states = [m \in {"A"} |-> [MarketState(Absent, Absent) EXCEPT !.coin_qty = held]]
          /\ exch = [krw |-> 1000, coin |-> [m \in Markets |-> IF m = "A" THEN held ELSE 0],
                     pending |-> [m \in Markets |-> Absent]]
    /\ krw_bal = 1000
    /\ start_equity = krw_bal
    /\ equity = krw_bal
    /\ stopped = Absent
    /\ now = 0
    /\ horizon = MaxMinute
    /\ placed = <<>>
    /\ refreshed = <<>>
    /\ open_buys = [m \in Markets |-> 0]
    /\ partial_sells = [m \in Markets |-> 0]
    /\ conn = "open"
    /\ ws_backoff = 5
    /\ ws_slept = Absent
    /\ ws_attempt = 0
    /\ received = "none"
    /\ close = <<>>
    /\ cash = 1000
    /\ fee \in {0, 10}
    /\ slippage \in {0, 10}
    /\ max_fraction = params.max_fraction
    /\ cooldown_bars = params.cooldown_bars
    /\ stop_drawdown = Absent
    /\ pc = "loop"
    /\ i = 0
    /\ sig = 0
    /\ price = 0
    /\ equity_curve = <<>>
    /\ position = 0
    /\ entry_price = 0
    /\ trades = <<>>
    /\ wins = 0
    /\ cash_bal = cash
    /\ last_trade_bar = -1000000000
    /\ stopped_reason = None
    /\ metrics = Absent
    /\ entries = 0

(* Every order of the message was accepted and filled at once, and every   *)
(* call returned                                                           *)
AllCallsSucceeded ==
    /\ \A k \in DOMAIN placed : placed[k].error = ""
    /\ \A k \in DOMAIN refreshed : refreshed[k].error = ""
    /\ \A m \in Markets : exch.pending[m] = Absent

(* One trade message; when it finalizes a bar the simulation reads that    *)
(* bar's close and signal                                                  *)
PairTick ==
    /\ LiveWsTickStep
    /\ AllCallsSucceeded'
    /\ IF states'["A"].bars = states["A"].bars + 1
       THEN /\ SimBarStep
            /\ price' = LastClose(states'["A"])
            /\ sig' = states'["A"].last_signal
       ELSE UNCHANGED simVars
    /\ UNCHANGED <<aggVars, quantVars, reqVars, callVars, cfgVars, warmVars>>

SpecPair == PairInit /\ [][PairTick]_vars


(***************************************************************************)
(* The websocket of the live loops: connect, subscribe, receive, and the   *)
(* handler of everything raised inside the connection.                     *)
(* portfolio_ws.py lines 164-187 and 306-309, ws_loop.py lines 146-169 and *)
(* 343-347.                                                                *)
(***************************************************************************)

(* Consecutive failed connections followed *)
MaxReconnects == 6

(* Inbound messages that are not a trade the loop can read *)
BadMessages == {"bad_json", "bad_utf8", "not_object", "no_price", "no_timestamp"}

(* What reading a bad message does: json.loads(...) raises on bytes that   *)
(* are not UTF-8 or text that is not JSON; _parse_trade returns None for   *)
(* anything it cannot read                                                 *)
ReadMessage(kind) == IF kind \in {"bad_json", "bad_utf8"} THEN "raises" ELSE "dropped"

(* The locals the except clause of the outer loop can see *)
WsLocals ==
    [states |-> states, krw_bal |-> krw_bal, start_equity |-> start_equity,
     stopped |-> stopped, backoff |-> ws_backoff, slept |-> ws_slept]

(* A handler that starts the aggregators afresh *)
OnWsError_DropBucket(L) ==
    [L EXCEPT !.slept = Some(L.backoff), !.backoff = Min2(L.backoff * 2, 80),
              !.states = [m \in DOMAIN L.states |-> [L.states[m] EXCEPT !.agg = Absent]]]

(* A handler that ends the session once the backoff is at its cap *)
OnWsError_GiveUp(L) ==
    [L EXCEPT !.slept = Some(L.backoff), !.backoff = Min2(L.backoff * 2, 80),
              !.stopped = IF L.backoff >= 20 THEN Some([stopped |-> "error"]) ELSE @]

(* except Exception: await asyncio.sleep(backoff);                         *)
(* backoff = min(backoff * 2.0, 8.0)                                       *)
OnWsError(L) ==
    [L EXCEPT !.slept = Some(L.backoff), !.backoff = Min2(L.backoff * 2, 80)]

(* The except clause runs and the connection is left *)
WsRaise ==
    LET L == OnWsError(WsLocals) IN
    /\ states' = L.states
    /\ krw_bal' = L.krw_bal
    /\ start_equity' = L.start_equity
    /\ stopped' = L.stopped
    /\ ws_backoff' = L.backoff
    /\ ws_slept' = L.slept
    /\ ws_attempt < MaxReconnects
    /\ ws_attempt' = ws_attempt + 1
    /\ conn' = "closed"
    /\ UNCHANGED <<loop, params, equity, now, horizon, exch, placed, refreshed, open_buys,
                   partial_sells>>

(* A session that starts before its first connection, one market *)
ConnInit ==
    /\ params = [markets |-> {"A"}, max_fraction |-> 50, max_daily_loss |-> 20,
                 cooldown_bars |-> 0, atr_trailing_mult |-> 1, partial_tp_pct |-> 50,
                 partial_tp_ratio |-> 50, hours_windows |-> <<>>]
    /\ LiveSetup(<<Absent, Absent>>)
    /\ conn = "closed"
    /\ horizon = MaxMinuteShort

(* A connection that leaves the reconnect delay where the failures took it *)
WsConnect_KeepBackoff ==
    /\ loop # "idle"
    /\ stopped = Absent
    /\ conn = "closed"
    /\ conn' = "open"
    /\ ws_backoff' = ws_backoff
    /\ ws_attempt' = 0
    /\ received' = "none"
    /\ UNCHANGED <<loop, params, states, krw_bal, start_equity, equity, stopped, now,
                   horizon, exch, placed, refreshed, open_buys, partial_sells, ws_slept>>
    /\ UNCHANGED <<simVars, aggVars, quantVars, reqVars, callVars, cfgVars, warmVars>>

(* websockets.connect and the subscription succeed *)
WsConnect ==
    /\ loop # "idle"
    /\ stopped = Absent
    /\ conn = "closed"
    /\ conn' = "open"
    /\ ws_backoff' = 5
    /\ ws_attempt' = 0
    /\ received' = "none"
    /\ UNCHANGED <<loop, params, states, krw_bal, start_equity, equity, stopped, now,
                   horizon, exch, placed, refreshed, open_buys, partial_sells, ws_slept>>
    /\ UNCHANGED <<simVars, aggVars, quantVars, reqVars, callVars, cfgVars, warmVars>>

(* A socket-level failure: connect or the subscription send fails, recv    *)
(* raises, or the ping after a receive timeout fails                       *)
WsError ==
    /\ loop # "idle"
    /\ stopped = Absent
    /\ WsRaise
    /\ received' = "none"
    /\ UNCHANGED <<simVars, aggVars, quantVars, reqVars, callVars, cfgVars, warmVars>>

(* A message that is not a readable trade arrives *)
WsBadMessage ==
    /\ loop # "idle"
    /\ stopped = Absent
    /\ conn = "open"
    /\ \E kind \in BadMessages :
        /\ received' = kind
        /\ IF ReadMessage(kind) = "raises"
           THEN WsRaise
           ELSE UNCHANGED <<loop, params, states, krw_bal, start_equity, equity, stopped,
                            now, horizon, exch, placed, refreshed, open_buys,
                            partial_sells, conn,
                            ws_backoff, ws_slept, ws_attempt>>
    /\ UNCHANGED <<simVars, aggVars, quantVars, reqVars, callVars, cfgVars, warmVars>>

ConnNext ==
    WsConnect \/ WsError \/ WsBadMessage \/ PortfolioTick \/ LiveWsTick \/ ExchangeFill

SpecConn == ConnInit /\ [][ConnNext]_vars

(***************************************************************************)
(* The receive loop of run_portfolio_ws and of run_live_ws as one          *)
(* coroutine: it takes one message from the socket, handles it, and makes  *)
(* the exchange calls of its order blocks before it takes the next one.    *)
(* run_portfolio_ws calls place_order and get_accounts directly;           *)
(* run_live_ws calls place_order directly and awaits get_order and         *)
(* get_accounts through asyncio.to_thread.                                 *)
(***************************************************************************)
MaxInbox == 3
PollLimit == 10

(* The markets the function subscribes to *)
Subscribed(r) == IF r = "portfolio" THEN Markets ELSE {"A"}

CallInit ==
    /\ SimIdle /\ AggIdle /\ QuantIdle /\ LiveIdle /\ ReqIdle /\ CfgIdle /\ WarmIdle
    /\ runner \in {"portfolio", "live_ws"}
    /\ inbox = <<>>
    /\ at = "recv"
    /\ cur = Absent
    /\ order_no = 0
    /\ polls = 0
    /\ last_handled = Absent

(* The exchange sends a trade message of a subscribed market *)
TickArrives ==
    /\ runner # "idle"
    /\ Len(inbox) < MaxInbox
    /\ \E m \in Subscribed(runner) : inbox' = Append(inbox, m)
    /\ UNCHANGED <<runner, at, cur, order_no, polls, last_handled>>
    /\ UNCHANGED <<simVars, aggVars, quantVars, liveVars, reqVars, cfgVars, warmVars>>

(* raw = await ws.recv(); the message is parsed, aggregated and, when it   *)
(* finalized a bar, evaluated; the evaluation may reach an order block     *)
RecvTick ==
    /\ at = "recv"
    /\ inbox # <<>>
    /\ inbox' = Tail(inbox)
    /\ last_handled' = Some(Head(inbox))
    /\ polls' = 0
    /\ \E order \in BOOLEAN :
        IF order
        THEN at' = "place_order" /\ cur' = Some(Head(inbox)) /\ order_no' = 1
        ELSE at' = "recv" /\ cur' = Absent /\ order_no' = 0
    /\ UNCHANGED runner
    /\ UNCHANGED <<simVars, aggVars, quantVars, liveVars, reqVars, cfgVars, warmVars>>

(* broker.place_order(...) returns or raises; when it raises the except    *)
(* clause of the order block logs and the next message is awaited          *)
PlaceOrderEnds ==
    /\ at = "place_order"
    /\ \E raised \in BOOLEAN :
        IF raised
        THEN at' = "recv" /\ cur' = Absent /\ order_no' = 0 /\ polls' = 0
        ELSE /\ at' = (IF runner = "live_ws" THEN "get_order" ELSE "get_accounts")
             /\ polls' = (IF runner = "live_ws" THEN 1 ELSE 0)
             /\ UNCHANGED <<cur, order_no>>
    /\ UNCHANGED <<runner, inbox, last_handled>>
    /\ UNCHANGED <<simVars, aggVars, quantVars, liveVars, reqVars, cfgVars, warmVars>>

(* od = await _get_order_async(broker, uuid_str) ends: the order is in a   *)
(* final state or the call raised (the refresh follows), or it is not and  *)
(* another poll follows unless this was the last one                       *)
GetOrderEnds ==
    /\ at = "get_order"
    /\ \E outcome \in {"final", "raised", "wait"} :
        IF outcome = "wait" /\ polls < PollLimit
        THEN polls' = polls + 1 /\ UNCHANGED at
        ELSE at' = "get_accounts" /\ UNCHANGED polls
    /\ UNCHANGED <<runner, inbox, cur, order_no, last_handled>>
    /\ UNCHANGED <<simVars, aggVars, quantVars, liveVars, reqVars, cfgVars, warmVars>>

(* get_accounts returns or raises: the order block is over.  In            *)
(* run_portfolio_ws the entry block can follow the partial take-profit of  *)
(* the same bar.                                                           *)
GetAccountsEnds ==
    /\ at = "get_accounts"
    /\ \E entry_follows \in BOOLEAN :
        IF entry_follows /\ runner = "portfolio" /\ order_no = 1
        THEN at' = "place_order" /\ order_no' = 2 /\ UNCHANGED <<cur, polls>>
        ELSE at' = "recv" /\ cur' = Absent /\ order_no' = 0 /\ polls' = 0
    /\ UNCHANGED <<runner, inbox, last_handled>>
    /\ UNCHANGED <<simVars, aggVars, quantVars, liveVars, reqVars, cfgVars, warmVars>>

CallNext == TickArrives \/ RecvTick \/ PlaceOrderEnds \/ GetOrderEnds \/ GetAccountsEnds

SpecCall == CallInit /\ [][CallNext]_vars

(***************************************************************************)
(* load_config.  Fee and slippage are in units of 0.0001.                  *)
(***************************************************************************)
EnvNames == {"UPBIT_ACCESS_KEY", "UPBIT_SECRET_KEY", "UA_FEE", "UA_SLIPPAGE"}

(* values of an environment variable: not set, empty, a key, numbers as    *)
(* float() reads them, and text that is no number                          *)
EnvValues(name) ==
    IF name \in {"UPBIT_ACCESS_KEY", "UPBIT_SECRET_KEY"}
    THEN {Absent, Some(""), Some("ENV_KEY")}
    ELSE {Absent, Some(""), Some("0.0005"), Some(" 1e-3 "), Some("abc")}

(* float(s): Absent where it raises ValueError *)
ParseFloat(str) ==
    IF str = "0.0005" THEN Some(5)
    ELSE IF str = " 1e-3 " THEN Some(10)
    ELSE Absent

(* The dicts _read_toml can return: the tables [api], [trading] and [app], *)
(* each present or not                                                     *)
FileData ==
    [api : {Absent, Some([upbit_access_key |-> Some("AAA"), upbit_secret_key |-> Some("BBB")])},
     trading : {Absent, Some([fee |-> Some(1), slippage |-> Some(1)]),
                Some([fee |-> Some(1), slippage |-> Absent])},
     app : {Absent, Some([timezone |-> Some("UTC")])}]

(* data.setdefault(table, {}) *)
SetDefault(d, table, empty) == IF IsSet(d[table]) THEN d ELSE [d EXCEPT ![table] = Some(empty)]

(* An overlay in which the file's key wins over the environment's *)
OverlayEnv_FileFirst(d, env) ==
    LET access == env["UPBIT_ACCESS_KEY"]
        secret == env["UPBIT_SECRET_KEY"]
        fee_s == env["UA_FEE"]
        slp == env["UA_SLIPPAGE"]
        d1 == IF TruthyStr(access) \/ TruthyStr(secret)
              THEN LET a0 == SetDefault(d, "api", [upbit_access_key |-> Absent,
                                                  upbit_secret_key |-> Absent])
                       a1 == IF TruthyStr(access) /\ ~IsSet(Val(a0.api).upbit_access_key)
                             THEN [a0 EXCEPT !.api = Some([Val(@) EXCEPT !.upbit_access_key = access])]
                             ELSE a0
                   IN IF TruthyStr(secret)
                      THEN [a1 EXCEPT !.api = Some([Val(@) EXCEPT !.upbit_secret_key = secret])]
                      ELSE a1
              ELSE d
    IN IF TruthyStr(fee_s) \/ TruthyStr(slp)
       THEN LET t0 == SetDefault(d1, "trading", [fee |-> Absent, slippage |-> Absent])
                t1 == IF TruthyStr(fee_s) /\ IsSet(ParseFloat(Val(fee_s)))
                      THEN [t0 EXCEPT !.trading = Some([Val(@) EXCEPT !.fee = ParseFloat(Val(fee_s))])]
                      ELSE t0
            IN IF TruthyStr(slp) /\ IsSet(ParseFloat(Val(slp)))
               THEN [t1 EXCEPT !.trading = Some([Val(@) EXCEPT !.slippage = ParseFloat(Val(slp))])]
               ELSE t1
       ELSE d1

(* overlay env: config.py lines 75-96 *)
OverlayEnv(d, env) ==
    LET access == env["UPBIT_ACCESS_KEY"]
        secret == env["UPBIT_SECRET_KEY"]
        fee_s == env["UA_FEE"]
        slp == env["UA_SLIPPAGE"]
        d1 == IF TruthyStr(access) \/ TruthyStr(secret)
              THEN LET a0 == SetDefault(d, "api", [upbit_access_key |-> Absent,
                                                  upbit_secret_key |-> Absent])
                       a1 == IF TruthyStr(access)
                             THEN [a0 EXCEPT !.api = Some([Val(@) EXCEPT !.upbit_access_key = access])]
                             ELSE a0
                   IN IF TruthyStr(secret)
                      THEN [a1 EXCEPT !.api = Some([Val(@) EXCEPT !.upbit_secret_key = secret])]
                      ELSE a1
              ELSE d
    IN IF TruthyStr(fee_s) \/ TruthyStr(slp)
       THEN LET t0 == SetDefault(d1, "trading", [fee |-> Absent, slippage |-> Absent])
                t1 == IF TruthyStr(fee_s) /\ IsSet(ParseFloat(Val(fee_s)))
                      THEN [t0 EXCEPT !.trading = Some([Val(@) EXCEPT !.fee = ParseFloat(Val(fee_s))])]
                      ELSE t0
            IN IF TruthyStr(slp) /\ IsSet(ParseFloat(Val(slp)))
               THEN [t1 EXCEPT !.trading = Some([Val(@) EXCEPT !.slippage = ParseFloat(Val(slp))])]
               ELSE t1
       ELSE d1

(* A field of a table of d, or the default of the Settings model *)
FieldOr(d, table, fld, default) ==
    IF IsSet(d[table]) /\ IsSet(Val(d[table])[fld]) THEN Val(d[table])[fld] ELSE default

(* Settings.model_validate(data): config.py lines 15-41 *)
model_validate(d) ==
    [api |-> [upbit_access_key |-> FieldOr(d, "api", "upbit_access_key", Absent),
              upbit_secret_key |-> FieldOr(d, "api", "upbit_secret_key", Absent)],
     trading |-> [fee |-> FieldOr(d, "trading", "fee", Some(5)),
                  slippage |-> FieldOr(d, "trading", "slippage", Some(5))],
     app |-> [timezone |-> FieldOr(d, "app", "timezone", Some("Asia/Seoul"))]]

CfgInit ==
    /\ SimIdle /\ AggIdle /\ QuantIdle /\ LiveIdle /\ ReqIdle /\ CallIdle /\ WarmIdle
    /\ environ \in {f \in [EnvNames -> {Absent, Some(""), Some("ENV_KEY"), Some("0.0005"),
                                           Some(" 1e-3 "), Some("abc")}] :
                      \A k \in EnvNames : f[k] \in EnvValues(k)}
    /\ file_data \in FileData
    /\ settings = Absent

(* load_config(path) *)
LoadConfig ==
    /\ settings = Absent
    /\ environ # Absent
    /\ settings' = Some(model_validate(OverlayEnv(file_data, environ)))
    /\ UNCHANGED <<environ, file_data>>
    /\ UNCHANGED <<simVars, aggVars, quantVars, liveVars, reqVars, callVars, warmVars>>

CfgNext == LoadConfig

SpecCfg == CfgInit /\ [][CfgNext]_vars

(***************************************************************************)
(* The warm-up of the live functions: the history fetch before the first   *)
(* connection (ws_loop.py lines 115-144, portfolio_ws.py lines 142-160,    *)
(* data/upbit.py lines 68-112) and the bar window the loops keep           *)
(* (ws_loop.py lines 195-204, portfolio_ws.py lines 207-215).              *)
(***************************************************************************)
(* HTTP requests of one fetch, and finalized bars, followed *)
MaxRequests == 12
MaxLiveBars == 2

(* take = min(200, remaining) *)
BatchLimit == 200

(* want = max(0, min(want, 2000)), 300 when neither --prefetch-bars nor    *)
(* required_bars() gives a number                                          *)
PrefetchCap == 2000
DefaultPrefetch == 300

WantOf(prefetch_bars, req_bars) ==
    LET w == IF IsSet(prefetch_bars) THEN Val(prefetch_bars)
             ELSE IF IsSet(req_bars) THEN Val(req_bars) ELSE DefaultPrefetch
    IN Max2(0, Min2(w, PrefetchCap))

(* What the candles endpoint answers: no answer (status 0), an error       *)
(* status, or at most `take` candles                                       *)
FetchResponses(take) ==
    {[status |-> 0, retry_after |-> "", batch |-> 0]}
    \cup {[status |-> st, retry_after |-> h, batch |-> 0]
            : st \in {429, 503}, h \in {"", "2"}}
    \cup {[status |-> 404, retry_after |-> "", batch |-> 0]}
    \cup {[status |-> 200, retry_after |-> "", batch |-> k] : k \in {0, 1, take}}

(* The cap of the window of each loop *)
WindowCap(l) == IF l = "live_ws" THEN LiveWsWindowCap ELSE PortfolioWindowCap

WarmInit ==
    /\ SimIdle /\ AggIdle /\ QuantIdle /\ LiveIdle /\ ReqIdle /\ CallIdle /\ CfgIdle
    /\ warm_loop \in {"portfolio", "live_ws"}
    /\ warm_pc \in {"start", "live"}
    /\ want \in {WantOf(pb, rb) : pb \in {Absent, Some(-1), Some(1), Some(601), Some(5000)},
                                  rb \in {Absent, Some(450)}}
    /\ (warm_pc = "live") => (want = 0)
    /\ remaining = 0
    /\ acc_len = 0
    /\ fetch_backoff = 0
    /\ requests = 0
    /\ last_status = Absent
    /\ win_df = <<>>
    /\ win_bars = 0
    /\ live_bars = 0

(* if prefetch: ... if want > 0: fetch_range_minutes(...) is entered:      *)
(* upbit.py lines 74-78                                                    *)
FetchStart ==
    /\ warm_pc = "start"
    /\ IF want > 0
       THEN /\ warm_pc' = "fetch"
            /\ remaining' = want
            /\ fetch_backoff' = 5
       ELSE /\ warm_pc' = "live"
            /\ UNCHANGED <<remaining, fetch_backoff>>
    /\ UNCHANGED <<warm_loop, want, acc_len, requests, last_status, win_df, win_bars,
                   live_bars>>
    /\ UNCHANGED <<simVars, aggVars, quantVars, liveVars, reqVars, callVars, cfgVars>>

(* The statuses fetch_range_minutes sleeps on and asks again; 0 stands for *)
(* httpx.RequestError: upbit.py lines 87 and 100                           *)
FetchRetried(status) == status = 0 \/ status \in {429, 500, 502, 503, 504}

(* What one iteration of `while remaining > 0` does with the answer r:     *)
(* upbit.py lines 79-110.  A status the loop does not retry is raised and  *)
(* caught by the caller (prefetch.error), which goes on without history.   *)
FetchAnswer(r) ==
    /\ last_status' = Some(r.status)
    /\ IF FetchRetried(r.status)
       THEN /\ fetch_backoff' = Min2(fetch_backoff * 2, 80)
            /\ UNCHANGED <<warm_pc, remaining, acc_len>>
       ELSE IF r.status # 200
       THEN /\ warm_pc' = "live"
            /\ UNCHANGED <<remaining, acc_len, fetch_backoff>>
       ELSE IF r.batch = 0
       THEN /\ warm_pc' = "fetched"
            /\ UNCHANGED <<remaining, acc_len, fetch_backoff>>
       ELSE /\ acc_len' = acc_len + r.batch
            /\ remaining' = remaining - r.batch
            /\ fetch_backoff' = 5
            /\ warm_pc' = (IF remaining' > 0 THEN "fetch" ELSE "fetched")

(* One iteration of `while remaining > 0`, counted *)
FetchRequest ==
    /\ warm_pc = "fetch"
    /\ remaining > 0
    /\ requests < MaxRequests
    /\ requests' = requests + 1
    /\ \E r \in FetchResponses(Min2(BatchLimit, remaining)) : FetchAnswer(r)
    /\ UNCHANGED <<warm_loop, want, win_df, win_bars, live_bars>>
    /\ UNCHANGED <<simVars, aggVars, quantVars, liveVars, reqVars, callVars, cfgVars>>

(* The iterations past the count the model keeps: of these the model       *)
(* follows the ones whose answer is retried, which leave the loop where    *)
(* it was                                                                  *)
FetchRetry ==
    /\ warm_pc = "fetch"
    /\ remaining > 0
    /\ requests = MaxRequests
    /\ \E r \in FetchResponses(Min2(BatchLimit, remaining)) :
        /\ FetchRetried(r.status)
        /\ FetchAnswer(r)
    /\ UNCHANGED <<warm_loop, want, requests, win_df, win_bars, live_bars>>
    /\ UNCHANGED <<simVars, aggVars, quantVars, liveVars, reqVars, callVars, cfgVars>>

(* return candles_to_df(acc), and what the caller does with it: ws_loop.py *)
(* lines 129-137 (df = pdf; bars = len(df)), portfolio_ws.py line 157      *)
(* (states[m].df = df).  With no candle candles_to_df raises and the       *)
(* window stays empty.                                                     *)
WarmLoaded ==
    /\ warm_pc = "fetched"
    /\ warm_pc' = "live"
    /\ win_df' = [k \in 1..acc_len |-> k]
    /\ win_bars' = (IF warm_loop = "live_ws" THEN acc_len ELSE win_bars)
    /\ UNCHANGED <<warm_loop, want, remaining, acc_len, fetch_backoff, requests,
                   last_status, live_bars>>
    /\ UNCHANGED <<simVars, aggVars, quantVars, liveVars, reqVars, callVars, cfgVars>>

(* A finalized bar is appended: ws_loop.py lines 195-204, portfolio_ws.py  *)
(* lines 207-215                                                           *)
WarmBar ==
    /\ warm_pc = "live"
    /\ live_bars < MaxLiveBars
    /\ live_bars' = live_bars + 1
    /\ LET newest == IF win_df = <<>> THEN 1 ELSE win_df[Len(win_df)] + 1
           st == AppendBar([df |-> win_df, bars |-> win_bars], [Close |-> newest],
                           WindowCap(warm_loop))
       IN /\ win_df' = st.df
          /\ win_bars' = st.bars
    /\ UNCHANGED <<warm_loop, warm_pc, want, remaining, acc_len, fetch_backoff, requests,
                   last_status>>
    /\ UNCHANGED <<simVars, aggVars, quantVars, liveVars, reqVars, callVars, cfgVars>>

WarmNext == FetchStart \/ FetchRequest \/ WarmLoaded \/ WarmBar

SpecWarm == WarmInit /\ [][WarmNext]_vars

(* The warm-up alone, every iteration of the fetch followed: the event     *)
(* loop runs the coroutine whenever it can go on                           *)
FetchInit == WarmInit /\ warm_pc = "start"

FetchNext == FetchStart \/ FetchRequest \/ FetchRetry \/ WarmLoaded

SpecFetch ==
    /\ FetchInit
    /\ [][FetchNext]_vars
    /\ WF_vars(FetchStart) /\ WF_vars(FetchRequest) /\ WF_vars(FetchRetry)
    /\ WF_vars(WarmLoaded)


(***************************************************************************)
(* Properties of UpbitBroker._request and place_order                      *)
(***************************************************************************)
LastSeen == seen[Len(seen)]

ClassifiedErrors ==
    {"AuthenticationError", "PermissionError", "NotFoundError", "InvalidRequestError",
     "ExchangeError"}

(* C11: a call of _request issues at most 5 HTTP attempts and ends in one  *)
(* of three ways: it returns the first successful response; it raises a    *)
(* classified error for the HTTP error status of its last attempt; or it   *)
(* raises RateLimitError after exactly 5 attempts that all failed with a   *)
(* 429, a 5xx or no response.                                              *)
C11_RequestEndsWithinCap ==
    /\ attempt <= 5
    /\ (req_pc = "done") =>
          \/ /\ Val(result).returned
             /\ attempt >= 1 /\ LastSeen >= 200 /\ LastSeen < 400
             /\ \A k \in 1..(Len(seen) - 1) : seen[k] = 0 \/ seen[k] >= 400
          \/ /\ ~Val(result).returned
             /\ Val(result).error \in ClassifiedErrors
             /\ attempt >= 1 /\ LastSeen >= 400
          \/ /\ ~Val(result).returned
             /\ Val(result).error = "RateLimitError"
             /\ attempt = 5
             /\ \A k \in DOMAIN seen : seen[k] = 0 \/ seen[k] = 429 \/ seen[k] >= 500

(* C12: a response with status 429 or 500..599 never ends the call by      *)
(* itself: a call whose last response carried such a status ends only by   *)
(* RateLimitError after 5 attempts.                                        *)
C12_TransientStatusesRetried ==
    ( /\ req_pc = "done"
      /\ seen # <<>>
      /\ Val(result).error # "OverflowError"
      /\ (LastSeen = 429 \/ (LastSeen >= 500 /\ LastSeen <= 599)) )
        => (attempt = 5 /\ Val(result).error = "RateLimitError")

(* C13: an attempt answered with a 4xx other than 429 ends the call at     *)
(* once with AuthenticationError for 401, PermissionError for 403,         *)
(* NotFoundError for 404 and InvalidRequestError otherwise, without a      *)
(* sleep; any other status that ends the call on its attempt gives         *)
(* ExchangeError, without a sleep; a call that has ended does nothing more.*)
C13_NonRetryableFailsAtOnce ==
    [][ /\ req_pc # "done"
        /\ (req_pc = "loop" /\ attempt' = attempt + 1) =>
              LET st == seen'[Len(seen')] IN
              /\ (st >= 400 /\ st <= 499 /\ st # 429)
                    => /\ req_pc' = "done"
                       /\ ~Val(result').returned
                       /\ Val(result').error =
                             (CASE st = 401 -> "AuthenticationError"
                                [] st = 403 -> "PermissionError"
                                [] st = 404 -> "NotFoundError"
                                [] OTHER -> "InvalidRequestError")
                       /\ slept' = slept /\ backoff' = backoff
              /\ (st >= 500 /\ req_pc' = "done" /\ Val(result').error # "OverflowError")
                    => /\ Val(result').error = "ExchangeError"
                       /\ slept' = slept /\ backoff' = backoff
      ]_vars

(* A 404 that followed two retried failures ended the call *)
C13_Witness ==
    /\ req_pc = "done"
    /\ attempt = 3
    /\ LastSeen = 404
    /\ slept # Absent

(* C14: in place_order an identifier the caller gave is kept, otherwise    *)
(* one is set before the first attempt; from then on req.identifier never  *)
(* changes and every HTTP attempt carries it.                              *)
C14_SameIdentifier ==
    [][ (call = "place_order") =>
          /\ (req_pc = "start") =>
                 /\ TruthyStr(identifier')
                 /\ TruthyStr(identifier) => (identifier' = identifier)
          /\ (req_pc # "start") => (identifier' = identifier)
          /\ \A k \in DOMAIN sent' : sent'[k] = identifier'
      ]_vars

(* Five attempts of one order were sent under a generated identifier *)
C14_Witness ==
    /\ call = "place_order"
    /\ Len(sent) = 5
    /\ sent[1] = Some("uuid-1")
    /\ sent[5] = Some("uuid-1")

(***************************************************************************)
(* Properties of the live loops                                            *)
(***************************************************************************)

(* C1: in both live loops, at every moment and for every market, at most   *)
(* one buy order has reached the exchange since the last exit sell did: a  *)
(* second buy is never submitted while an earlier one stands, also when    *)
(* the earlier buy's response was lost or the refresh after it reported a  *)
(* zero quantity.                                                          *)
C1_OnePositionPerMarket == \A m \in Markets : open_buys = Absent \/ open_buys[m] <= 1

(* C2: a tick whose equity is at or below start_equity * (1 - max_daily_   *)
(* loss), with both positive, ends the session with a result that reports  *)
(* a risk stop and submits no buy; once the session is stopped no order is *)
(* submitted at all.                                                       *)
C2_NoBuyAfterRiskStop ==
    [][ /\ ( /\ loop # "idle"
             /\ params.max_daily_loss > 0
             /\ start_equity > 0
             /\ equity' * 100 <= start_equity * (100 - params.max_daily_loss) )
           => /\ IsSet(stopped')
              /\ Val(stopped').stopped = "risk"
              /\ \A k \in DOMAIN placed' : placed'[k].side # "buy"
        /\ IsSet(stopped)
           => /\ stopped' = stopped
              /\ placed' = placed
              /\ open_buys' = open_buys
              /\ exch'.krw >= exch.krw
      ]_vars

(* The session stopped for risk while one market held a position and       *)
(* another was flat with cash left to buy                                  *)
C2_Witness ==
    /\ IsSet(stopped)
    /\ krw_bal > 0
    /\ \E m1 \in DOMAIN states, m2 \in DOMAIN states :
          states[m1].coin_qty > 0 /\ states[m2].coin_qty = 0

(* The next step submits an exit sell for market m *)
SubmitsExit(m) ==
    /\ LiveNext
    /\ \E k \in DOMAIN placed' : placed'[k].market = m /\ placed'[k].kind = "exit"

(* C3: after the risk halt an exit can still be submitted: whenever the    *)
(* session is stopped for risk, a market holds a position and trading time *)
(* remains, a tick that finalizes a bar with a sell signal submits the     *)
(* market's exit sell.                                                     *)
C3_ExitsAfterHalt ==
    \A m \in DOMAIN states :
        (IsSet(stopped) /\ states[m].coin_qty > 0 /\ now < horizon)
            => ENABLED SubmitsExit(m)

(* The tick just handled submitted an order of this kind for market m *)
Ordered(m, kind) ==
    \E k \in DOMAIN placed' : placed'[k].market = m /\ placed'[k].kind = kind

(* C18: in run_portfolio_ws, after a bar on which the exit sell of a       *)
(* market was issued, whether place_order returned or raised, the market's *)
(* quantity and the cash are the exchange's balances, the trailing stop    *)
(* and the partial flag are cleared and the last-trade bar is that bar.    *)
C18_ExitAlwaysRefreshes ==
    [][ \A m \in DOMAIN states :
          ( /\ loop = "portfolio"
            /\ states'[m].bars = states[m].bars + 1
            /\ Ordered(m, "exit") )
            => /\ states'[m].coin_qty = exch'.coin[m]
               /\ krw_bal' = exch'.krw
               /\ states'[m].trail_stop = Absent
               /\ ~states'[m].partial_done
               /\ states'[m].last_trade_bar = states'[m].bars
      ]_vars

(* C19: a trailing stop that is set before and after a step has not gone   *)
(* down; it changes to a set value only on a bar that found the market     *)
(* holding a quantity, and then to max(previous stop or 0, close -         *)
(* multiplier * ATR); it becomes unset only on a bar that issued the       *)
(* market's exit or entry and recorded it as the last trade.               *)
C19_TrailNeverLoosens ==
    [][ \A m \in DOMAIN states :
          LET a == states[m]
              b == states'[m]
          IN
          /\ (IsSet(a.trail_stop) /\ IsSet(b.trail_stop))
                => Val(b.trail_stop) >= Val(a.trail_stop)
          /\ (IsSet(b.trail_stop) /\ b.trail_stop # a.trail_stop)
                => /\ a.coin_qty > 0
                   /\ b.bars = a.bars + 1
                   /\ \E atr \in {25} :
                        LET prev == IF IsSet(a.trail_stop) THEN Val(a.trail_stop) ELSE 0
                            cand == b.df[Len(b.df)] - params.atr_trailing_mult * atr
                        IN Val(b.trail_stop) = (IF cand > prev THEN cand ELSE prev)
          /\ (IsSet(a.trail_stop) /\ ~IsSet(b.trail_stop))
                => /\ Ordered(m, "exit") \/ Ordered(m, "entry")
                   /\ b.last_trade_bar = b.bars
      ]_vars

(* A market still holds its quantity with the stop at 75 after a bar that  *)
(* closed at 50: the stop set at close 100 was kept                        *)
C19_Witness ==
    \E m \in DOMAIN states :
        /\ states[m].coin_qty > 0
        /\ states[m].trail_stop = Some(75)
        /\ LastClose(states[m]) = 50

(* C20: for every market, at most one partial sell has been accepted by    *)
(* the exchange since the last entry or exit it accepted.                  *)
C20_PartialOnlyOnce ==
    \A m \in Markets : partial_sells = Absent \/ partial_sells[m] <= 1

(***************************************************************************)
(* Properties of the websocket handling                                    *)
(***************************************************************************)

(* The fields of market m that decisions are taken from *)
DecisionState(S, m) ==
    <<S[m].df, S[m].agg, S[m].bars, S[m].coin_qty, S[m].entry_price,
      S[m].last_trade_bar, S[m].trail_stop, S[m].partial_done>>

(* C15: every step that leaves the connection, waits for the next one or   *)
(* opens it keeps the bar window, the open bucket, the bar counter, the    *)
(* quantity, entry price, last-trade bar, trailing stop and partial flag   *)
(* of every market, the cash and the session-start equity as they were.    *)
C15_ReconnectKeepsState ==
    [][ (loop # "idle" /\ (conn' # conn \/ conn = "closed"))
          => /\ DOMAIN states' = DOMAIN states
             /\ \A m \in DOMAIN states : DecisionState(states', m) = DecisionState(states, m)
             /\ krw_bal' = krw_bal
             /\ start_equity' = start_equity
      ]_vars

(* The connection is open again after a failure, with a position held, a   *)
(* bar in the window and a bucket open                                     *)
C15_Witness ==
    /\ conn = "open"
    /\ received = "none"
    /\ IsSet(ws_slept)
    /\ \E m \in DOMAIN states :
          states[m].coin_qty > 0 /\ states[m].bars > 0 /\ IsSet(states[m].agg)

(* C16: a step that leaves or fails to open the connection does not end    *)
(* the session and sleeps the current backoff; the session ends only with  *)
(* a risk stop; and whenever the connection is closed in a session that    *)
(* has not ended, a new connection can be opened.                          *)
C16_SocketFailureReconnects ==
    /\ [][ /\ ( /\ loop # "idle"
                /\ conn' = "closed"
                /\ <<conn, ws_backoff, ws_slept>>' # <<conn, ws_backoff, ws_slept>> )
              => /\ stopped' = Absent
                 /\ ws_slept' = Some(ws_backoff)
                 /\ ws_backoff' = (IF ws_backoff * 2 > 80 THEN 80 ELSE ws_backoff * 2)
           /\ (stopped' # stopped) => (IsSet(stopped') /\ Val(stopped').stopped = "risk")
         ]_vars
    /\ []((loop # "idle" /\ conn = "closed") => ENABLED WsConnect)

(* The connection is closed after failures in a row that brought the       *)
(* backoff to 4 seconds, with a position held                              *)
C16_Witness ==
    /\ conn = "closed"
    /\ ws_backoff >= 40
    /\ stopped = Absent
    /\ \E m \in DOMAIN states : states[m].coin_qty > 0

(* C17: a message that is not valid UTF-8, not valid JSON, not an object   *)
(* or lacks a price or a timestamp changes nothing: the market states and  *)
(* the cash stay, the connection stays open and no backoff is slept.       *)
C17_BadMessageDropped ==
    [][ (received' \in BadMessages)
          => /\ states' = states
             /\ krw_bal' = krw_bal
             /\ conn' = conn
             /\ ws_backoff' = ws_backoff
             /\ ws_slept' = ws_slept
      ]_vars

(***************************************************************************)
(* Properties of simulate_long_only                                        *)
(***************************************************************************)
(* Number of bars whose mark-to-market equity was appended by the loop: the *)
(* halting bar is marked, and then the loop breaks with i still its index.  *)
BarsMarked == IF stopped_reason = "risk_violation" THEN i + 1 ELSE i

BreachAt(k) == (equity_curve[k] - cash) * 100 <= -(Val(stop_drawdown) * cash)

(* C4: with starting cash > 0 and a drawdown stop s, the run reports        *)
(* StoppedReason = risk_violation exactly when the mark-to-market equity of *)
(* some bar (cash + position x close, before the bar's signal is acted on)  *)
(* is <= cash x (1 - s); in every other case it reports completed.          *)
C4_StopIffBreach ==
    pc = "done" =>
        LET reason == Val(metrics).StoppedReason IN
        /\ reason \in {"risk_violation", "completed"}
        /\ IF cash > 0 /\ IsSet(stop_drawdown)
           THEN (reason = "risk_violation") <=> (\E k \in 1..BarsMarked : BreachAt(k))
           ELSE reason = "completed"

(* The scenario of test_risk_violation_triggers_stop: prices             *)
(* [100,100,100,50], bought at bar 1, held, stop 0.3 -> risk_violation.   *)
C4_Witness ==
    /\ pc = "done"
    /\ close = <<100, 100, 100, 50>>
    /\ cash = 1000 /\ fee = 0 /\ slippage = 0 /\ max_fraction = 100
    /\ stop_drawdown = Some(30)
    /\ last_trade_bar = 1
    /\ sig = -1
    /\ equity_curve = <<1000, 1000, 1000, 500, 500>>
    /\ Val(metrics).StoppedReason = "risk_violation"

(* C5: when the run halts with risk_violation at bar i, nothing after bar i *)
(* is used: no signal at bar i or later is acted on, and a position still   *)
(* open at the halt is valued and closed at the close of bar i, not at the  *)
(* close of a later bar of the series.                                      *)
C5_HaltUsesNoLaterBar ==
    [][ /\ (pc' = "halted") => (last_trade_bar' < i')
        /\ (pc = "halted" /\ pc' = "done") =>
             LET s == SimSell(close[i + 1], position, entry_price, cash_bal) IN
             /\ last_trade_bar' < i'
             /\ Val(metrics').equity_final =
                    (IF position > 0 THEN s.cash_bal
                     ELSE equity_curve[Len(equity_curve)])
             /\ trades' = (IF position > 0 THEN Append(trades, s.trade_ret) ELSE trades)
             /\ Val(metrics').num_trades = Len(trades')
      ]_vars

(* C6: a buy signal at bar i while flat, with positive price and cash and   *)
(* no halt on that bar, opens a position exactly when i minus the bar of    *)
(* the last trade is >= cooldown_bars; and every trade the loop makes on a  *)
(* signal is at least cooldown_bars after the trade before it.              *)
C6_Cooldown ==
    [][ (pc = "loop" /\ pc' = "loop")
        => /\ (sig' = 1 /\ position = 0 /\ price' > 0 /\ cash_bal > 0)
                => ((position' > 0) <=> (i - last_trade_bar >= cooldown_bars))
           /\ (last_trade_bar' # last_trade_bar)
                => (last_trade_bar' = i /\ i - last_trade_bar >= cooldown_bars)
      ]_vars

(* cooldown_bars = 3, one trade closed, and the bar just processed carried  *)
(* a buy signal 2 bars after it: still flat.                                *)
C6_Witness ==
    /\ pc = "loop"
    /\ cooldown_bars = 3
    /\ Len(trades) = 1
    /\ sig = 1
    /\ position = 0
    /\ cash_bal > 0
    /\ (i - 1) - last_trade_bar = 2

(***************************************************************************)
(* Properties of CandleAggregator                                          *)
(***************************************************************************)
RECURSIVE SumVolume(_)
SumVolume(s) == IF s = <<>> THEN 0 ELSE s[1].volume + SumVolume(Tail(s))

HighestPrice(s) ==
    CHOOSE x \in {s[k].price : k \in 1..Len(s)} : \A k \in 1..Len(s) : x >= s[k].price

LowestPrice(s) ==
    CHOOSE x \in {s[k].price : k \in 1..Len(s)} : \A k \in 1..Len(s) : x <= s[k].price

(* C8: with non-decreasing timestamps, the bar update() returns when the   *)
(* first tick of a later minute arrives covers exactly the ticks of the    *)
(* bucket's minute: start = that minute, open = first price, high = the    *)
(* maximum, low = the minimum, close = last price, volume = the sum; the   *)
(* arriving tick is not in it and seeds the new bucket.                    *)
C8_BarCoversMinute ==
    [][ (ordered' /\ bucket' # Absent /\ row' # Absent) =>
            LET bar == Val(row')
                arriving == Val(tick')
                minute == floor_minute(ticks[1].ts)
            IN
            /\ ticks # <<>>
            /\ \A k \in 1..Len(ticks) : floor_minute(ticks[k].ts) = minute
            /\ floor_minute(arriving.ts) > minute
            /\ bar = [timestamp |-> minute,
                      Open |-> ticks[1].price,
                      High |-> HighestPrice(ticks),
                      Low |-> LowestPrice(ticks),
                      Close |-> ticks[Len(ticks)].price,
                      Volume |-> SumVolume(ticks)]
            /\ bucket' = Some([start |-> floor_minute(arriving.ts),
                               open |-> arriving.price, high |-> arriving.price,
                               low |-> arriving.price, close |-> arriving.price,
                               volume |-> arriving.volume])
      ]_vars

(* Ticks 100, 105, 95 in minute 0, then a tick at 0:01:05: the bar is      *)
(* open 100, high 105, low 95, close 95, and the tick seeds minute 1.      *)
C8_Witness ==
    /\ ordered
    /\ row = Some([timestamp |-> 0, Open |-> 100, High |-> 105, Low |-> 95,
                   Close |-> 95, Volume |-> 5])
    /\ tick # Absent /\ Val(tick).ts = 65
    /\ bucket # Absent /\ Val(bucket).start = 60 /\ Val(bucket).volume = Val(tick).volume
    /\ Len(ticks) = 1

(* C9: update() returns at most one bar, and returns one exactly when a    *)
(* bucket is open and the tick's floored minute is strictly later than the *)
(* bucket's start; that bar is the old bucket's (no bar for a skipped      *)
(* minute), and the first tick ever or after finalize() returns none.      *)
C9_OneBarWhenLaterMinute ==
    [][ /\ Len(row') <= 1
        /\ (bucket' # Absent) =>
              /\ (row' # Absent) <=>
                    (bucket # Absent /\ floor_minute(Val(tick').ts) > Val(bucket).start)
              /\ (row' # Absent) => Val(row').timestamp = Val(bucket).start
      ]_vars

(* A tick in minute 0 followed directly by a tick in minute 3: one bar,    *)
(* for minute 0, and the open bucket is minute 3's.                        *)
C9_Witness ==
    /\ row # Absent /\ Val(row).timestamp = 0
    /\ tick # Absent /\ Val(tick).ts = 185
    /\ bucket # Absent /\ Val(bucket).start = 180

(***************************************************************************)
(* Properties of quantize_price                                            *)
(***************************************************************************)
(* C10: for a price p >= 0 and a tick size u > 0, quantize_price(p, u) is  *)
(* a multiple of u, is <= p, and p - result < u (100.7 at tick 1.0 gives   *)
(* 100.0); for u None, zero or negative the price is returned unchanged.   *)
C10_QuantizeRoundsDown ==
    q_result # Absent =>
        LET r == Val(q_result) IN
        /\ IF q_unit # Absent /\ Val(q_unit) > 0
           THEN /\ r % Val(q_unit) = 0
                /\ r <= q_price
                /\ q_price - r < Val(q_unit)
           ELSE r = q_price
        /\ (q_price = 1007 /\ q_unit = Some(10)) => r = 1000

(* quantize(100.7, 1.0) has returned 100.0 *)
C10_Witness ==
    /\ q_price = 1007
    /\ q_unit = Some(10)
    /\ q_result = Some(1000)

(***************************************************************************)
(* Allowed hours                                                           *)
(***************************************************************************)
(* The time of day at which the tick now being handled arrived *)
TickClock == ClockOf(60 * now + 30)

(* C21: with at least one allowed-hours window configured, a buy order is  *)
(* submitted only when the time of the tick that finalized the bar lies    *)
(* inside some window (a window whose start is after its end runs over     *)
(* midnight).                                                              *)
C21_BuyOnlyInsideAllowedHours ==
    (loop = "portfolio" /\ Len(params.hours_windows) > 0) =>
        \A k \in DOMAIN placed :
            (placed[k].side = "buy") =>
                \E w \in DOMAIN params.hours_windows :
                    LET s == params.hours_windows[w][1]
                        e == params.hours_windows[w][2]
                    IN \/ s <= e /\ s <= TickClock /\ TickClock <= e
                       \/ s > e /\ (TickClock >= s \/ TickClock <= e)

(***************************************************************************)
(* Market minimum                                                          *)
(***************************************************************************)
(* C22: every buy a live loop sends carries a notional (the budget after   *)
(* tick-size quantization) of at least the market's minimum order          *)
(* notional, whenever that minimum is known.                               *)
C22_NoBuyBelowMinimum ==
    \A k \in DOMAIN placed :
        LET mt == states[placed[k].market].min_total IN
        (placed[k].side = "buy" /\ IsSet(mt)) => placed[k].funds >= Val(mt)

(***************************************************************************)
(* Balances                                                                *)
(***************************************************************************)
(* The balances get_accounts returned during the last tick: a currency     *)
(* that is not listed is a balance of 0                                    *)
CashRead(S) == {Val(S[k].krw) : k \in {j \in DOMAIN S : IsSet(S[j].krw)}}
CoinRead(S) ==
    {IF IsSet(S[k].coin) THEN Val(S[k].coin) ELSE 0 : k \in {j \in DOMAIN S : S[j].error = ""}}

(* C23: the local cash and the local per-market quantity change only to a  *)
(* value that get_accounts returned after an order of the same tick, with  *)
(* at most one get_accounts call per order; they are never computed from   *)
(* the order's size or price.                                              *)
C23_BalancesOnlyFromExchange ==
    [][/\ (krw_bal' # krw_bal) => (krw_bal' \in CashRead(refreshed'))
       /\ \A m \in params.markets :
            (states'[m].coin_qty # states[m].coin_qty) =>
                (states'[m].coin_qty \in CoinRead(refreshed'))
       /\ Len(refreshed') <= Len(placed')]_vars

(***************************************************************************)
(* Order status                                                            *)
(***************************************************************************)
(* The place_order call reached the exchange and the order was taken:      *)
(* the call returned, or raised after the retries ran out                  *)
OrderTaken(o) == o.error \in {"", "RateLimitError"}

(* C24: when a tick has been handled, every order of that tick that the    *)
(* exchange took (whether place_order returned or raised after sending)    *)
(* has had at least one order-status query.                                *)
C24_StatusCheckedAfterSend ==
    \A k \in DOMAIN placed : OrderTaken(placed[k]) => placed[k].status_checked

(***************************************************************************)
(* Errors of exchange calls in the live loops                              *)
(***************************************************************************)
(* C25: when an exchange call of the tick just handled raised an           *)
(* authentication or permission error (HTTP 401 or 403), the run has       *)
(* halted: the loop has ended and handles no further tick.                 *)
C25_AuthErrorHaltsRun ==
    (\E k \in DOMAIN placed :
        placed[k].error \in {"AuthenticationError", "PermissionError"})
    => (stopped # Absent)

(* Every order of the tick failed with an invalid-request or a generic     *)
(* exchange error raised by place_order                                    *)
FailedOrders(S) ==
    /\ S # <<>>
    /\ \A k \in DOMAIN S : S[k].error \in {"InvalidRequestError", "ExchangeError"}

(* The position state an order block can write *)
PositionOf(st) == <<st.coin_qty, st.entry_price, st.partial_done, st.last_trade_bar>>

C27_OtherMarketsNotBlocked ==
    (/\ at \in {"get_accounts", "get_order"}
     /\ inbox # <<>>
     /\ Some(Head(inbox)) # cur)
    => ENABLED RecvTick

(***************************************************************************)
(* The position at the return of simulate_long_only                        *)
(***************************************************************************)
(* C28: when simulate_long_only returns, after a completed or a halted     *)
(* loop, no position is open; a position that was open is sold at the last *)
(* price of the series with the slippage and fee of a signal exit and      *)
(* appended to the trades, and the reported trade count is the number of   *)
(* positions opened.                                                       *)
C28_NoOpenPositionAtReturn ==
    [][(pc' = "done" /\ pc # "done") =>
        LET px == close'[Len(close')]
            sell_price == (px * (100 - slippage)) \div 100
            notional == (position * sell_price) \div 1000
            proceeds == notional - (notional * fee) \div 100
            trade_ret == ((sell_price - entry_price) * 100) \div entry_price - 2 * fee
        IN /\ position' = 0
           /\ Val(metrics').num_trades = entries
           /\ (position > 0) =>
                /\ cash_bal' = cash_bal + proceeds
                /\ trades' = Append(trades, trade_ret)
           /\ (position = 0) => (cash_bal' = cash_bal /\ trades' = trades)]_vars

(* The function returned after a halt that found a position open, with a   *)
(* fee and a slippage, and after a closed trade before it                  *)
C28_Witness ==
    /\ pc = "done"
    /\ stopped_reason = "risk_violation"
    /\ fee > 0 /\ slippage > 0
    /\ position = 0
    /\ entries = 2
    /\ last_trade_bar < i - 1
    /\ Len(trades) = 2

(***************************************************************************)
(* Precedence of the environment in load_config                            *)
(***************************************************************************)
(* What load_config returns when the environment overrides a setting under *)
(* the test `overrides`, and the file (or the model's default) otherwise   *)
Precedence(overrides(_)) ==
    LET fileOr(table, fld, default) ==
            IF IsSet(file_data[table]) /\ IsSet(Val(file_data[table])[fld])
            THEN Val(file_data[table])[fld] ELSE default
        key(name, fld) ==
            IF overrides(environ[name]) THEN environ[name] ELSE fileOr("api", fld, Absent)
        rate(name, fld) ==
            IF overrides(environ[name]) /\ IsSet(ParseFloat(Val(environ[name])))
            THEN ParseFloat(Val(environ[name])) ELSE fileOr("trading", fld, Some(5))
    IN [api |-> [upbit_access_key |-> key("UPBIT_ACCESS_KEY", "upbit_access_key"),
                 upbit_secret_key |-> key("UPBIT_SECRET_KEY", "upbit_secret_key")],
        trading |-> [fee |-> rate("UA_FEE", "fee"),
                     slippage |-> rate("UA_SLIPPAGE", "slippage")],
        app |-> [timezone |-> fileOr("app", "timezone", Some("Asia/Seoul"))]]

IsNonEmpty(v) == IsSet(v) /\ Val(v) # ""

(* C29: for each of the access key, the secret key, the fee and the        *)
(* slippage, load_config returns the environment variable's value when the *)
(* variable is set to a non-empty string (for the fee and the slippage:    *)
(* one that parses as a number) and the file's value otherwise; a setting  *)
(* without an environment variable has the file's value.                   *)
C29_EnvOverridesFile ==
    IsSet(settings) => (Val(settings) = Precedence(IsNonEmpty))

(* C29 as stated: the environment variable's value is returned whenever    *)
(* the variable is set.                                                    *)
C29_EnvOverridesFileWhenSet ==
    IsSet(settings) => (Val(settings) = Precedence(IsSet))

(* The environment's access key replaced the file's, a fee that is no      *)
(* number left the file's fee, and a slippage was taken from the           *)
(* environment                                                             *)
C29_Witness ==
    /\ IsSet(settings)
    /\ environ["UPBIT_ACCESS_KEY"] = Some("ENV_KEY")
    /\ environ["UPBIT_SECRET_KEY"] = Absent
    /\ environ["UA_FEE"] = Some("abc")
    /\ environ["UA_SLIPPAGE"] = Some(" 1e-3 ")
    /\ IsSet(file_data.api) /\ IsSet(file_data.trading)
    /\ Val(settings).api = [upbit_access_key |-> Some("ENV_KEY"), upbit_secret_key |-> Some("BBB")]
    /\ Val(settings).trading = [fee |-> Some(1), slippage |-> Some(10)]


(***************************************************************************)
(* The wait before a retry of UpbitBroker._request                         *)
(***************************************************************************)
(* b_k = min(0.5 x 2^(k-1), 8) seconds, in tenths of a second *)
BaseBackoff(k) == IF 5 * 2^(k - 1) < 80 THEN 5 * 2^(k - 1) ELSE 80

(* The delay a Retry-After header asks for, in tenths of a second: 0 when  *)
(* the header is absent or is not a number                                 *)
HintOf(h) == IF h = "2" THEN 20 ELSE 0

(* C30: before the k-th retry after a 429, 500, 502, 503 or 504 response   *)
(* the wait is at least max(b_k, Retry-After) and at most 1.2 times that,  *)
(* where b_k = min(0.5 x 2^(k-1), 8) seconds is the base backoff, which    *)
(* doubles after every retryable failure (status or transport) and never   *)
(* exceeds 8 seconds; an absent or unparsable Retry-After counts as 0.     *)
C30_RetryWaitHonoursFloors ==
    [][ (req_pc = "loop" /\ attempt' = attempt + 1 /\ req_pc' = "loop") =>
            LET k == attempt'
                st == seen'[Len(seen')]
            IN /\ backoff = BaseBackoff(k)
               /\ backoff' = BaseBackoff(k + 1)
               /\ backoff' <= 80
               /\ (st \in {429, 500, 502, 503, 504}) =>
                     LET floor == IF HintOf(Val(slept').retry_after) > BaseBackoff(k)
                                  THEN HintOf(Val(slept').retry_after)
                                  ELSE BaseBackoff(k)
                     IN /\ IsSet(slept')
                        /\ Val(slept').t >= floor
                        /\ 10 * Val(slept').t <= 12 * floor
      ]_vars

(* After a transport failure, a 429 with Retry-After: 2 was waited out for *)
(* 2.2 seconds, more than the base backoff of 1 second                     *)
C30_Witness ==
    /\ req_pc = "loop"
    /\ seen = <<0, 429>>
    /\ slept = Some([t |-> 22, jitter |-> TRUE, retry_after |-> "2"])
    /\ backoff = 20


(***************************************************************************)
(* The delay before a reconnect of the live loops                          *)
(***************************************************************************)
(* C31: the delay before the k-th consecutive reconnect attempt is         *)
(* min(0.5 x 2^(k-1), 8) seconds, it never exceeds 8 seconds, and it       *)
(* returns to 0.5 seconds as soon as a connection has been opened and its  *)
(* subscription message sent; the backoff of the REST client plays no part *)
(* in it and is not touched by it.                                         *)
C31_ReconnectDelayCappedAndReset ==
    /\ [][ /\ (ws_attempt' = ws_attempt + 1) =>
                /\ ws_slept' = Some(BaseBackoff(ws_attempt'))
                /\ Val(ws_slept') <= 80
           /\ (conn # "open" /\ conn' = "open") => (ws_backoff' = 5 /\ ws_attempt' = 0)
           /\ backoff' = backoff
         ]_vars
    /\ [](/\ ws_backoff = BaseBackoff(ws_attempt + 1)
          /\ ws_backoff <= 80
          /\ (conn = "open") => (ws_backoff = 5))

(* After five failures in a row, the last one waited out for 8 seconds, a  *)
(* connection was subscribed and the delay is 0.5 seconds again            *)
C31_Witness ==
    /\ conn = "open"
    /\ ws_slept = Some(80)
    /\ ws_backoff = 5
    /\ ws_attempt = 0


(***************************************************************************)
(* The order of the blocks of a finalized bar in run_portfolio_ws          *)
(***************************************************************************)
(* A market sell of everything the market held before the bar *)
IsFullSell(o, m) ==
    o.market = m /\ o.side = "sell" /\ o.size = states[m].coin_qty

(* C32: on a finalized bar where the market holds a position and an exit   *)
(* condition holds (trailing stop set and close <= stop, or sell signal),  *)
(* the full-quantity market sell is the only order issued for that market  *)
(* on that bar, whether the sell succeeded or failed, and whatever the     *)
(* cooldown; a bar that issued the full sell issued nothing else.          *)
C32_ExitIsTheOnlyOrder ==
    [][ \A m \in Markets :
          ( /\ loop = "portfolio" /\ m \in params.markets
            /\ states'[m].bars = states[m].bars + 1
            /\ states[m].coin_qty > 0 ) =>
              LET st == states'[m] IN
              /\ ( \/ st.last_signal = -1
                   \/ IsSet(st.trail_stop) /\ LastClose(st) <= Val(st.trail_stop) )
                    => (Len(placed') = 1 /\ IsFullSell(placed'[1], m))
              /\ (\E k \in DOMAIN placed' : IsFullSell(placed'[k], m))
                    => Len(placed') = 1
      ]_vars

(* One bar after the entry, inside a cooldown of 2 bars, a sell signal led *)
(* to a sell of the whole position that the exchange refused: it is the    *)
(* bar's only order and the position is still held                         *)
C32_Witness ==
    /\ loop = "portfolio"
    /\ params.cooldown_bars = 2
    /\ states["A"].last_signal = -1
    /\ states["A"].coin_qty > 0
    /\ states["A"].bars - states["A"].last_trade_bar = 1
    /\ Len(placed) = 1
    /\ placed[1].side = "sell" /\ placed[1].size = states["A"].coin_qty
    /\ placed[1].error = "InvalidRequestError"


(***************************************************************************)
(* The size of the bar window                                              *)
(***************************************************************************)
(* C33: in every reachable state of the live loops, right after warm-up    *)
(* and before the first live bar included, the retained bar window holds   *)
(* at most 600 bars in run_live_ws and at most 2000 in run_portfolio_ws,   *)
(* and it holds the most recent bars in their original order.              *)
C33_WindowNeverExceedsCap ==
    /\ (warm_loop = "live_ws") => (Len(win_df) <= 600)
    /\ (warm_loop = "portfolio") => (Len(win_df) <= 2000)
    /\ \A k \in 1..(Len(win_df) - 1) : win_df[k + 1] = win_df[k] + 1


(***************************************************************************)
(* After the status polling of run_live_ws                                 *)
(***************************************************************************)
(* C34: in run_live_ws, whatever the status polling of an accepted order   *)
(* gave, the cooldown counter is set to the current bar and the balances   *)
(* are then refreshed from the exchange, the local cash and quantity       *)
(* taking the values the exchange holds.                                   *)
C34_RefreshedAfterPolling ==
    [][ ( /\ loop = "live_ws"
          /\ states'["A"].bars = states["A"].bars + 1
          /\ placed' # <<>>
          /\ placed'[1].error = "" ) =>
            /\ placed'[1].status_checked
            /\ states'["A"].last_trade_bar = states'["A"].bars
            /\ krw_bal' = exch'.krw
            /\ states'["A"].coin_qty = exch'.coin["A"]
      ]_vars


(***************************************************************************)
(* run_live_ws against simulate_long_only, bar by bar                      *)
(***************************************************************************)
(* The loop finalizes a bar, which the simulation reads *)
BarStep == states'["A"].bars = states["A"].bars + 1

(* On that bar the loop submits a buy exactly when the simulation opens a  *)
(* position, and a sell of all it holds exactly when the simulation closes *)
(* one                                                                     *)
SameDecision ==
    /\ (\E k \in DOMAIN placed' : placed'[k].side = "buy") <=> (entries' = entries + 1)
    /\ (\E k \in DOMAIN placed' : /\ placed'[k].side = "sell"
                                  /\ placed'[k].size = states["A"].coin_qty)
          <=> (Len(trades') = Len(trades) + 1)

(* The loop holds a position exactly when the simulation does, and the     *)
(* next bar is as far from the last trade in both                          *)
Coupled ==
    /\ (position > 0) <=> (states["A"].coin_qty > 0)
    /\ \/ last_trade_bar = -1000000000 /\ states["A"].last_trade_bar = -1000000000
       \/ i - last_trade_bar = states["A"].bars + 1 - states["A"].last_trade_bar

(* C35: for the same finalized bars, signals and cooldown_bars, with every *)
(* order filled fully and at once, no failing call, no binding minimum and *)
(* no risk stop, and an account that holds none of the coin when the       *)
(* session starts, run_live_ws submits a buy on exactly the bars on which  *)
(* simulate_long_only opens a position and a full sell on exactly the bars *)
(* on which it closes one on a signal.                                     *)
C35_LiveFollowsModelFromFlat ==
    /\ []((states["A"].bars = 0 /\ states["A"].coin_qty = 0) => Coupled)
    /\ [][(Coupled /\ BarStep) => (SameDecision /\ Coupled')]_vars

(* The same for every account, whatever it holds when the session starts *)
C35_LiveFollowsModel ==
    [][BarStep => SameDecision]_vars

(* With a cooldown of 2 bars both bought at 100 on the first bar and sold  *)
(* at 50 on the third                                                      *)
C35_Witness ==
    /\ Coupled
    /\ params.cooldown_bars = 2
    /\ states["A"].bars = 3
    /\ entries = 1
    /\ Len(trades) = 1
    /\ Len(placed) = 1 /\ placed[1].side = "sell"
    /\ krw_bal = 750


(***************************************************************************)
(* The cash balance of simulate_long_only                                  *)
(***************************************************************************)
(* C36: for every starting cash >= 0, fee rate >= 0, slippage >= 0 and max *)
(* fraction in (0, 1], the cash balance is >= 0 after every entry and      *)
(* every exit.                                                             *)
C36_CashNeverNegative ==
    cash_bal >= 0


(***************************************************************************)
(* The final equity reported by simulate_long_only                         *)
(***************************************************************************)
(* C37: for every input, the reported 'Equity Final' equals the cash       *)
(* balance held once every position is closed, the slippage and the fee of *)
(* the last sale included.                                                 *)
C37_FinalEquityIsFinalCash ==
    (pc = "done" /\ position = 0) => (Val(metrics).equity_final = cash_bal)


(***************************************************************************)
(* Order of the bars of one CandleAggregator                               *)
(***************************************************************************)
(* C38: over the calls of update() on an open bucket, ticks in any order:  *)
(* the open bucket's start never decreases; a returned bar has the old     *)
(* bucket's start, strictly below the start of the bucket opened by the    *)
(* tick, so the bars returned have strictly increasing starts; and a tick  *)
(* whose floored minute is earlier than the open bucket's start returns no *)
(* bar and is merged into the open bucket (high, low, close, volume) with  *)
(* the start unchanged.                                                    *)
C38_BarStartsStrictlyIncrease ==
    [][ (bucket # Absent /\ bucket' # Absent) =>
            LET old == Val(bucket)
                new == Val(bucket')
                arriving == Val(tick')
            IN
            /\ new.start >= old.start
            /\ (row' # Absent) =>
                  /\ Val(row').timestamp = old.start
                  /\ Val(row').timestamp < new.start
            /\ (floor_minute(arriving.ts) < old.start) =>
                  /\ row' = Absent
                  /\ new = [start |-> old.start,
                            open |-> old.open,
                            high |-> Max2(old.high, arriving.price),
                            low |-> Min2(old.low, arriving.price),
                            close |-> arriving.price,
                            volume |-> old.volume + arriving.volume]
      ]_vars

(* A tick at 0:01:05 for 100, then a late tick stamped 0:00:10 for 95: no  *)
(* bar, and minute 1's bucket takes the late tick as its low and close.    *)
C38_Witness ==
    /\ ~ordered
    /\ row = Absent
    /\ tick # Absent /\ Val(tick).ts = 10 /\ Val(tick).price = 95
    /\ bucket # Absent /\ Val(bucket).start = 60
    /\ Val(bucket).open = 100 /\ Val(bucket).low = 95 /\ Val(bucket).close = 95
    /\ Len(ticks) = 2


(***************************************************************************)
(* Orders per bar in run_portfolio_ws                                      *)
(***************************************************************************)
(* C39: in run_portfolio_ws one finalized bar submits at most one order    *)
(* for its market, whatever the partial take-profit ratio and the signal:  *)
(* no bar submits both a partial take-profit sell and an entry buy.        *)
C39_OneOrderPerBar ==
    (loop = "portfolio") =>
        \A m \in params.markets :
            Cardinality({k \in DOMAIN placed : placed[k].market = m}) <= 1


(***************************************************************************)
(* Termination of the warm-up fetch                                        *)
(***************************************************************************)
(* C40: the warm-up fetch terminates: whatever the candles endpoint        *)
(* answers, 429/5xx or no answer every time included, fetch_range_minutes  *)
(* returns or raises after finitely many requests and the session goes on  *)
(* to its first connection attempt.                                        *)
C40_WarmUpTerminates == <>(warm_pc = "live")

====
